---- MODULE Spec2Model ----
(***************************************************************************)
(* A model of the S3 cost estimator: the cost attribution of               *)
(* S3CostEstimator.format_cost_data, the run of                            *)
(* S3CostEstimator.Cost_Estimate with its report renderer, and the entry   *)
(* point of list_s3_and_estimate.                                          *)
(*                                                                         *)
(* Strings are sequences of tokens: a bucket name or a resource identifier *)
(* is a sequence of one-character tokens, so that Python's `in` is the     *)
(* substring test; longer literals are one token each.  A Python dict is   *)
(* a sequence of <<key, value>> pairs in insertion order.  A Python float  *)
(* is an IEEE-754 binary64 number, kept as an exponent and Prec mantissa   *)
(* bits, with round-to-nearest-even after every operation.                 *)
(***************************************************************************)
EXTENDS Integers, Sequences, FiniteSets, TLC

\* ------------------------------------------------------------------ bounds

\* Amounts of the billing responses are the decimal strings "0.0" .. "0.<MaxTenths>"
\* (and MaxTenths/10 beyond 9), written as a number of tenths.
MaxTenths == 3

\* The most groups in one time bucket of a coarse (summary) response.
MaxGroups == 3

\* The most line items in one time bucket of a detailed response.
MaxItems == 2

\* The most bucket names in the bucket list given to format_cost_data.
MaxBuckets == 2

\* ------------------------------------------------------- program constants

\* Python's float is IEEE-754 binary64: a 53-bit significand.
Prec == 53

\* ------------------------------------------------------------------ strings

\* s[i..j] of a sequence (empty when j < i).
Slice(s, i, j) == [k \in 1..(IF j >= i THEN j - i + 1 ELSE 0) |-> s[i + k - 1]]

\* Python's `sub in s` on strings.
Contains(s, sub) ==
    \E i \in 0..(Len(s) - Len(sub)) : Slice(s, i + 1, i + Len(sub)) = sub

\* Python's sep.join(parts).
RECURSIVE Join(_, _)
Join(parts, sep) ==
    IF parts = <<>> THEN <<>>
    ELSE IF Len(parts) = 1 THEN parts[1]
    ELSE parts[1] \o sep \o Join(Tail(parts), sep)

\* Python's s.replace(old, new) for a one-token old.
Replace(s, old, new) == [i \in 1..Len(s) |-> IF s[i] = old THEN new ELSE s[i]]

\* -------------------------------------------------------------------- dicts

DictHas(d, k) == \E i \in 1..Len(d) : d[i][1] = k

DictIndex(d, k) == CHOOSE i \in 1..Len(d) : d[i][1] = k

DictGet(d, k) == d[DictIndex(d, k)][2]

\* d[k] = v: an existing key keeps its place, a new key goes last.
DictSet(d, k, v) ==
    IF DictHas(d, k) THEN [d EXCEPT ![DictIndex(d, k)] = <<k, v>>]
    ELSE Append(d, <<k, v>>)

\* ------------------------------------------------------------------- floats

\* A float is FZero or [exp, man]: man is Prec bits, man[1] = 1, and the value
\* is the sum of man[i] * 2^(exp - i + 1).  All floats of the model are >= 0
\* and far from overflow and from the subnormal range.
FZero == [exp |-> 0, man |-> <<>>]

Zeros(n) == [i \in 1..n |-> 0]

\* The sum of two bit strings of the same length, one bit longer.  The carry
\* into position i comes from the nearest position to its right where both
\* bits are 1, when every position in between has exactly one 1.
AddBits(a, b) ==
    LET n == Len(a)
        Carry(i) == IF \E j \in (i + 1)..n :
                          /\ a[j] = 1 /\ b[j] = 1
                          /\ \A k \in (i + 1)..(j - 1) : a[k] + b[k] = 1
                    THEN 1 ELSE 0
    IN  <<Carry(0)>> \o [i \in 1..n |-> (a[i] + b[i] + Carry(i)) % 2]

\* Round-to-nearest-even of the bit string `bits` (bits[1] = 1, at least Prec
\* bits, weight of bits[1] is 2^exp) followed by a non-zero tail iff `sticky`.
RoundBits(exp, bits, sticky) ==
    LET keep  == Slice(bits, 1, Prec)
        guard == IF Len(bits) > Prec THEN bits[Prec + 1] ELSE 0
        rest  == sticky \/ \E i \in (Prec + 2)..Len(bits) : bits[i] = 1
        up    == guard = 1 /\ (rest \/ keep[Prec] = 1)
        inc   == AddBits(keep, [i \in 1..Prec |-> IF i = Prec THEN 1 ELSE 0])
    IN  IF ~up THEN [exp |-> exp, man |-> keep]
        ELSE IF inc[1] = 1 THEN [exp |-> exp + 1, man |-> Slice(inc, 1, Prec)]
        ELSE [exp |-> exp, man |-> Tail(inc)]

\* x + y on floats.
FloatAdd(x, y) ==
    IF x = FZero THEN y
    ELSE IF y = FZero THEN x
    ELSE LET a == IF x.exp >= y.exp THEN x ELSE y
             b == IF x.exp >= y.exp THEN y ELSE x
             d == a.exp - b.exp
             s == AddBits(a.man \o Zeros(d), Zeros(d) \o b.man)
         IN  IF s[1] = 1 THEN RoundBits(a.exp + 1, s, FALSE)
             ELSE RoundBits(a.exp, Tail(s), FALSE)

\* num/den scaled by a power of two into [1, 2): <<num', den', exp>>.
RECURSIVE Normalise(_, _, _)
Normalise(num, den, exp) ==
    IF num < den THEN Normalise(2 * num, den, exp - 1)
    ELSE IF num >= 2 * den THEN Normalise(num, 2 * den, exp + 1)
    ELSE <<num, den, exp>>

\* The first k binary digits of r/den (den <= r < 2 * den) and the remainder.
RECURSIVE Digits(_, _, _, _)
Digits(r, den, k, acc) ==
    IF k = 0 THEN <<acc, r>>
    ELSE IF r >= den THEN Digits(2 * (r - den), den, k - 1, Append(acc, 1))
    ELSE Digits(2 * r, den, k - 1, Append(acc, 0))

\* float("<tenths / 10>"): the binary64 number nearest to the decimal.
FloatOfTenths(tenths) ==
    IF tenths = 0 THEN FZero
    ELSE LET n == Normalise(tenths, 10, 0)
             d == Digits(n[1], n[2], Prec + 1, <<>>)
         IN  RoundBits(n[3], d[1], d[2] # 0)

\* The number a bit string writes.
RECURSIVE BitsToInt(_)
BitsToInt(bits) ==
    IF bits = <<>> THEN 0
    ELSE 2 * BitsToInt(SubSeq(bits, 1, Len(bits) - 1)) + bits[Len(bits)]

\* The float in hundredths, as f"{x:.2f}" rounds it: the exact binary value
\* times 100, rounded half-to-even to an integer.
Cents(x) ==
    IF x = FZero THEN 0
    ELSE LET Wide(bits, w) == Zeros(w - Len(bits)) \o bits
             \* 100 * man = 64 * man + 32 * man + 4 * man
             p    == AddBits(AddBits(x.man \o Zeros(6), Wide(x.man \o Zeros(5), Prec + 6)),
                             Wide(x.man \o Zeros(2), Prec + 7))
             \* the last bit of p weighs 2^(exp - Prec + 1)
             frac == Prec - 1 - x.exp
             all  == IF frac >= Len(p) THEN Zeros(frac - Len(p) + 1) \o p ELSE p
             int  == BitsToInt(SubSeq(all, 1, Len(all) - frac))
             half == all[Len(all) - frac + 1]
             rest == \E i \in (Len(all) - frac + 2)..Len(all) : all[i] = 1
         IN  IF half = 1 /\ (rest \/ int % 2 = 1) THEN int + 1 ELSE int

\* float(Amount) for the amounts of the model, computed once.
FloatTable == [t \in 0..(MaxTenths + 1) |-> FloatOfTenths(t)]

float(tenths) == FloatTable[tenths]

\* ------------------------------------------------------- format_cost_data

\* The sentinel key of bucket_breakdown.
OtherS3Costs == <<"Other S3 Costs">>

\* f"{start}_to_{end}"
PeriodKey(result) == <<result.TimePeriod.Start, "_to_", result.TimePeriod.End>>

\* total_cost = 0; for group in Groups: total_cost += float(Amount)
RECURSIVE SumGroups(_, _)
SumGroups(groups, total_cost) ==
    IF groups = <<>> THEN total_cost
    ELSE SumGroups(Tail(groups), FloatAdd(total_cost, float(groups[1].Amount)))

\* A mutant of ProcessSummary: one record for the whole response, keyed from
\* the first Start to the last End.
ProcessSummaryOneRecord(results, formatted_data) ==
    IF results = <<>> THEN formatted_data
    ELSE DictSet(formatted_data,
                 <<results[1].TimePeriod.Start, "_to_", results[Len(results)].TimePeriod.End>>,
                 [total_s3_cost    |-> SumGroups(results[1].Groups, FZero),
                  bucket_breakdown |-> <<>>])

\* The loop over cost_data['summary']['ResultsByTime'].
RECURSIVE ProcessSummary(_, _)
ProcessSummary(results, formatted_data) ==
    IF results = <<>> THEN formatted_data
    ELSE ProcessSummary(Tail(results),
            DictSet(formatted_data, PeriodKey(results[1]),
                    [total_s3_cost    |-> SumGroups(results[1].Groups, FZero),
                     bucket_breakdown |-> <<>>]))

\* A mutant of MatchBucket: no break, so the last matching bucket wins.
RECURSIVE MatchBucketNoBreak(_, _, _)
MatchBucketNoBreak(buckets_, resource_id, bucket_name) ==
    IF buckets_ = <<>> THEN bucket_name
    ELSE IF Contains(resource_id, buckets_[1])
         THEN MatchBucketNoBreak(Tail(buckets_), resource_id, buckets_[1])
         ELSE MatchBucketNoBreak(Tail(buckets_), resource_id, bucket_name)

\* A mutant of MatchBucket: an unmatched item falls to the last bucket tried
\* instead of the sentinel.
RECURSIVE MatchBucketNoSentinel(_, _, _)
MatchBucketNoSentinel(buckets_, resource_id, bucket_name) ==
    IF buckets_ = <<>> THEN bucket_name
    ELSE IF Contains(resource_id, buckets_[1]) THEN buckets_[1]
    ELSE MatchBucketNoSentinel(Tail(buckets_), resource_id, buckets_[1])

\* bucket_name = 'Other S3 Costs'
\* for bucket in buckets: if bucket in resource_id: bucket_name = bucket; break
RECURSIVE MatchBucket(_, _, _)
MatchBucket(buckets_, resource_id, bucket_name) ==
    IF buckets_ = <<>> THEN bucket_name
    ELSE IF Contains(resource_id, buckets_[1]) THEN buckets_[1]
    ELSE MatchBucket(Tail(buckets_), resource_id, bucket_name)

\* The loop over the Groups of one detailed result: bucket_breakdown after it.
RECURSIVE AttributeGroups(_, _, _)
AttributeGroups(groups, buckets_, bucket_breakdown) ==
    IF groups = <<>> THEN bucket_breakdown
    ELSE LET resource_id == groups[1].Keys[1]
             cost        == float(groups[1].Amount)
             bucket_name == MatchBucket(buckets_, resource_id, OtherS3Costs)
             before      == IF DictHas(bucket_breakdown, bucket_name)
                            THEN bucket_breakdown
                            ELSE DictSet(bucket_breakdown, bucket_name, FZero)
         IN  AttributeGroups(Tail(groups), buckets_,
                DictSet(before, bucket_name,
                        FloatAdd(DictGet(before, bucket_name), cost)))

\* The loop over cost_data['detailed']['ResultsByTime'].
RECURSIVE ProcessDetailed(_, _, _)
ProcessDetailed(results, buckets_, formatted_data) ==
    IF results = <<>> THEN formatted_data
    ELSE LET period_key == PeriodKey(results[1])
         IN  IF DictHas(formatted_data, period_key)
             THEN LET rec == DictGet(formatted_data, period_key)
                  IN  ProcessDetailed(Tail(results), buckets_,
                        DictSet(formatted_data, period_key,
                            [rec EXCEPT !.bucket_breakdown =
                                AttributeGroups(results[1].Groups, buckets_, @)]))
             ELSE ProcessDetailed(Tail(results), buckets_, formatted_data)

\* The {} that get_s3_costs_by_bucket_with_client returns after an exception.
NoCostData == <<>>

\* format_cost_data(cost_data, buckets).  cost_data is a dict whose keys are
\* among 'summary' and 'detailed', each a response [ResultsByTime |-> ...].
format_cost_data(cost_data_, buckets_) ==
    IF cost_data_ = <<>> \/ ~DictHas(cost_data_, "summary") THEN <<>>
    ELSE LET summarised ==
                 ProcessSummary(DictGet(cost_data_, "summary").ResultsByTime, <<>>)
         IN  IF DictHas(cost_data_, "detailed")
             THEN ProcessDetailed(DictGet(cost_data_, "detailed").ResultsByTime,
                                  buckets_, summarised)
             ELSE summarised

\* -------------------------------------------------- generate_report_content

Periods == <<"day", "week", "month", "quarter", "year">>

\* period.capitalize()
capitalize(period) ==
    CASE period = "day" -> "Day" [] period = "week" -> "Week"
      [] period = "month" -> "Month" [] period = "quarter" -> "Quarter"
      [] period = "year" -> "Year"

\* period.upper()
upper(period) ==
    CASE period = "day" -> "DAY" [] period = "week" -> "WEEK"
      [] period = "month" -> "MONTH" [] period = "quarter" -> "QUARTER"
      [] period = "year" -> "YEAR"

\* The number of characters of a string of tokens.
RECURSIVE CharLen(_)
CharLen(s) == IF s = <<>> THEN 0 ELSE Len(s[1]) + CharLen(Tail(s))

Spaces(n) == [i \in 1..n |-> " "]

\* f"{s:<width}" and f"{s:>width}"
LeftJustify(s, width) == s \o Spaces(width - CharLen(s))

RightJustify(s, width) == Spaces(width - CharLen(s)) \o s

\* A number of hundredths written with two decimals.
CentsText(c) ==
    <<ToString(c \div 100), ".", ToString((c % 100) \div 10), ToString(c % 10)>>

\* f"{x:.2f}"
Fixed2(x) == CentsText(Cents(x))

\* "=" * 80 and the like.
Rule(char, n) == <<char, "*", ToString(n)>>

\* The lines before the summary table.
ReportHeader(buckets_, region_, now) ==
    <<Rule("=", 80),
      <<"AWS S3 COST ESTIMATION REPORT">>,
      Rule("=", 80),
      <<"Generated on: ", now>>,
      <<"AWS Region: ">> \o region_,
      <<"Total buckets analyzed: ", ToString(Len(buckets_))>>,
      <<>>,
      <<"BUCKETS IN SCOPE:">>,
      Rule("-", 20)>>
    \o [i \in 1..Len(buckets_) |->
            RightJustify(<<ToString(i)>>, 2) \o <<". ">> \o buckets_[i]]
    \o <<(<<>>)>>

\* total_cost += data.get('total_s3_cost', 0) over the records of a period.
RECURSIVE SummaryTotal(_, _)
SummaryTotal(period_data, total_cost) ==
    IF period_data = <<>> THEN total_cost
    ELSE SummaryTotal(Tail(period_data),
                      FloatAdd(total_cost, period_data[1][2].total_s3_cost))

\* date_range = period_key.replace('_to_', ' to ') of the last key but 'total'.
RECURSIVE SummaryDateRange(_, _)
SummaryDateRange(period_data, date_range) ==
    IF period_data = <<>> THEN date_range
    ELSE SummaryDateRange(Tail(period_data),
            IF period_data[1][1] # <<"total">>
            THEN Replace(period_data[1][1], "_to_", " to ")
            ELSE date_range)

\* f"{period.capitalize():<12} ${total_cost:<17.2f} {date_range}"
SummaryRow(period, period_data) ==
    LeftJustify(<<capitalize(period)>>, 12) \o <<" ", "$">>
    \o LeftJustify(Fixed2(SummaryTotal(period_data, FZero)), 17) \o <<" ">>
    \o SummaryDateRange(period_data, <<"N/A">>)

\* The summary table: a row for every period that is a key of all_costs.
RECURSIVE SummaryRows(_, _)
SummaryRows(all_costs_, periods) ==
    IF periods = <<>> THEN <<>>
    ELSE (IF DictHas(all_costs_, periods[1])
          THEN <<SummaryRow(periods[1], DictGet(all_costs_, periods[1]))>>
          ELSE <<>>)
         \o SummaryRows(all_costs_, Tail(periods))

SummaryTable(all_costs_) ==
    <<(<<"COST SUMMARY BY PERIOD">>),
      Rule("-", 25),
      LeftJustify(<<"Period">>, 12) \o <<" ">>
        \o LeftJustify(<<"Total Cost (USD)">>, 18) \o <<" ">>
        \o LeftJustify(<<"Date Range">>, 25),
      Rule("-", 60)>>
    \o SummaryRows(all_costs_, Periods)
    \o <<(<<>>)>>

\* for resource, cost in bucket_breakdown.items(): "  - {resource}: ${cost:.2f}"
BreakdownLines(bucket_breakdown) ==
    [i \in 1..Len(bucket_breakdown) |->
        <<"  - ">> \o bucket_breakdown[i][1] \o <<": $">> \o Fixed2(bucket_breakdown[i][2])]

\* The lines of one record of a period.
RecordLines(period_key, data) ==
    IF period_key = <<"total">> THEN <<>>
    ELSE <<(<<"Period: ">> \o Replace(period_key, "_to_", " to ")),
           (<<"Total S3 Cost: $">> \o Fixed2(data.total_s3_cost))>>
         \o (IF data.bucket_breakdown # <<>>
             THEN <<(<<"Breakdown by resource:">>)>> \o BreakdownLines(data.bucket_breakdown)
             ELSE <<(<<"  (No detailed breakdown available)">>)>>)
         \o <<(<<>>)>>

RECURSIVE PeriodLines(_)
PeriodLines(period_data) ==
    IF period_data = <<>> THEN <<>>
    ELSE RecordLines(period_data[1][1], period_data[1][2]) \o PeriodLines(Tail(period_data))

\* The detail sections: one for every period that is a key of all_costs.
RECURSIVE DetailSections(_, _)
DetailSections(all_costs_, periods) ==
    IF periods = <<>> THEN <<>>
    ELSE (IF ~DictHas(all_costs_, periods[1]) THEN <<>>
          ELSE <<(<<"DETAILED BREAKDOWN - ", upper(periods[1])>>), Rule("-", 40)>>
               \o PeriodLines(DictGet(all_costs_, periods[1])))
         \o DetailSections(all_costs_, Tail(periods))

ReportFooter ==
    <<Rule("=", 80),
      <<"NOTE: Cost data is retrieved from AWS Cost Explorer API.">>,
      <<"Costs may include storage, requests, and data transfer charges.">>,
      <<"Detailed bucket-level breakdown depends on AWS Cost Explorer">>,
      <<"configuration and may show aggregated costs.">>,
      Rule("=", 80)>>

\* A mutant of generate_report_content: the clock is written at the end too.
GenerateReportStampedFooter(all_costs_, buckets_, region_, now) ==
    ReportHeader(buckets_, region_, now)
    \o SummaryTable(all_costs_)
    \o DetailSections(all_costs_, Periods)
    \o ReportFooter
    \o <<(<<"Generated on: ", now>>)>>

\* generate_report_content(all_costs, buckets, region); `now` is
\* datetime.now().strftime('%Y-%m-%d %H:%M:%S').  The result is the list of
\* lines that "\n".join(report) joins.
generate_report_content(all_costs_, buckets_, region_, now) ==
    ReportHeader(buckets_, region_, now)
    \o SummaryTable(all_costs_)
    \o DetailSections(all_costs_, Periods)
    \o ReportFooter

\* ------------------------------------------------------------------ inputs

\* Bucket names, as strings of characters.
BucketNames == {<<"a">>, <<"b">>, <<"a", "b">>}

\* Resource identifiers of detailed line items: "a" holds the bucket name a
\* alone, "ab" holds a, b and ab, "c" holds none, and the ARN holds b alone.
ResourceIds == {<<"a">>, <<"a", "b">>, <<"c">>, <<"arn:aws:s3:::", "b">>}

\* The sequences of 1..n distinct elements of S.
DistinctSeqs(S, n) ==
    UNION {{s \in [1..k -> S] : \A i, j \in 1..k : s[i] = s[j] => i = j} : k \in 1..n}

\* The sequences of 0..n elements of S.
SeqsUpTo(S, n) == UNION {[1..k -> S] : k \in 0..n}

\* Monthly time buckets of the billing responses.
Month1 == [Start |-> "2026-09-01", End |-> "2026-10-01"]
Month2 == [Start |-> "2026-10-01", End |-> "2026-11-01"]
Month3 == [Start |-> "2026-11-01", End |-> "2026-11-04"]

\* One group of a coarse response: Keys are the linked account and the service,
\* Amount is Metrics.BlendedCost.Amount.
SummaryGroup(tenths) ==
    [Keys |-> <<"123456789012", "Amazon Simple Storage Service">>, Amount |-> tenths]

\* One group of a detailed response: Keys is the resource identifier.
DetailGroup(resource_id, tenths) == [Keys |-> <<resource_id>>, Amount |-> tenths]

Result(period, groups) == [TimePeriod |-> period, Groups |-> groups]

Response(results) == [ResultsByTime |-> results]

CostData(summary, detailed) ==
    <<(<<"summary", Response(summary)>>), (<<"detailed", Response(detailed)>>)>>

SummaryGroupLists ==
    {[i \in 1..Len(a) |-> SummaryGroup(a[i])] : a \in SeqsUpTo(1..MaxTenths, MaxGroups)}

DetailGroupLists ==
    SeqsUpTo({DetailGroup(r, t) : r \in ResourceIds, t \in 1..MaxTenths}, MaxItems)

\* Responses that vary the coarse groups: one or two time buckets.
TotalInputs ==
    {CostData(<<Result(Month1, g)>>, <<>>) : g \in SummaryGroupLists}
    \cup {CostData(<<Result(Month1, g), Result(Month2, <<SummaryGroup(1)>>)>>,
                   <<Result(Month2, <<DetailGroup(<<"c">>, 1)>>)>>) :
            g \in SummaryGroupLists}

\* Responses that vary the detailed line items: of a time bucket that has a
\* summary record (Month1), of one that has none (Month3), and of two detailed
\* results for the same time bucket.
FixedSummary == <<Result(Month1, <<SummaryGroup(2)>>), Result(Month2, <<SummaryGroup(1)>>)>>

AttributionInputs ==
    {CostData(FixedSummary, <<Result(m, g)>>) :
        m \in {Month1, Month3}, g \in DetailGroupLists}
    \cup {CostData(FixedSummary,
                   <<Result(Month1, g), Result(Month1, <<DetailGroup(<<"a", "b">>, 1)>>)>>) :
            g \in DetailGroupLists}

BucketLists == DistinctSeqs(BucketNames, MaxBuckets)

\* ------------------------------------------------------------------- state

VARIABLES
    entry,      \* the entry point that runs
    pc,         \* its position
    region,     \* the region argument ("" when Cost_Estimate is given none)
    args_bucket, \* list_s3_and_estimate's --bucket arguments (<<>> when none)
    buckets,    \* the bucket list in scope
    listing,    \* how the bucket listing ended: "none", "ok", "empty", "failed"
    calls,      \* the billing queries issued so far, with their outcomes
    cost_data,  \* the raw cost data last handed to format_cost_data
    formatted,  \* what format_cost_data last returned
    all_costs,  \* Cost_Estimate's all_costs: period -> formatted data
    filename,   \* the generated report file name
    report,     \* the rendered report
    written,    \* the content of the report file, NoFile while there is none
    io_failed,  \* the file-system operation that failed: "none", "makedirs", "open", "write"
    ret,        \* what Cost_Estimate (or generate_cost_report) returned or raised
    exit_code,  \* the process exit code of the command-line entry point
    period_arg, \* get_date_range's argument
    now_day,    \* the day number of datetime.now() (days since 1970-01-01)
    renders,    \* the calls of generate_report_content so far: clock and text
    pages,      \* the pages the list_objects_v2 paginator gives, each a list of keys
    max_keys,   \* list_bucket_objects' max_keys: <<>> for None, <<n>> for n
    fetch_all,  \* list_bucket_objects' fetch_all
    cursor,     \* the generator's position: the page and the object within it
    count,      \* the generator's count
    yielded,    \* the items the generator has yielded
    auth,       \* display_s3objects' --auth
    cli_bucket, \* display_s3objects' --bucket: <<>> for None, <<name>> for name
    env_bucket, \* AWS_S3_BUCKET: <<>> when unset, <<name>> when set
    non_interactive, \* display_s3objects' --non-interactive
    bucket,     \* the bucket resolve_bucket returned: <<>> for None
    known_buckets,   \* the bucket list resolve_bucket returned
    requests,   \* the AWS requests display_s3objects issued, with their answers
    output,     \* the messages display_s3objects printed
    analysis_buckets,  \* analyze_all_buckets' bucket list
    analysis_results   \* analyze_all_buckets' analysis_results

estimate_vars == <<entry, pc, region, args_bucket, buckets, listing, calls, cost_data,
                   formatted, all_costs, filename, report, written, io_failed, ret,
                   exit_code>>

dates_vars == <<period_arg, now_day>>

render_vars == <<renders>>

inventory_vars == <<pages, max_keys, fetch_all, cursor, count, yielded>>

lister_vars == <<auth, cli_bucket, env_bucket, non_interactive, bucket, known_buckets,
                 requests, output>>

analyzer_vars == <<analysis_buckets, analysis_results>>

vars == <<estimate_vars, dates_vars, render_vars, inventory_vars, lister_vars,
          analyzer_vars>>

\* get_date_range is not being called.
NoDatesCall == period_arg = "" /\ now_day = 0

\* generate_report_content has not been called on its own.
NoRenderCall == renders = <<>>

\* list_bucket_objects is not running.
NoInventory ==
    /\ pages = <<>>
    /\ max_keys = <<>>
    /\ fetch_all = FALSE
    /\ cursor = <<0, 1>>
    /\ count = 0
    /\ yielded = <<>>

\* display_s3objects is not running.
NoLister ==
    /\ auth = ""
    /\ cli_bucket = <<>>
    /\ env_bucket = <<>>
    /\ non_interactive = FALSE
    /\ bucket = <<>>
    /\ known_buckets = <<>>
    /\ requests = <<>>
    /\ output = <<>>

\* analysis_results before analyze_all_buckets has built it.
NoResults ==
    [error |-> "", total_buckets |-> 0, buckets |-> <<>>, cost_report_path |-> <<>>,
     analysis_file_path |-> <<>>]

\* analyze_all_buckets is not running.
NoAnalyzer == analysis_buckets = <<>> /\ analysis_results = NoResults

\* A function's outcome: a value returned, or an exception raised.
Returned(value) == [kind |-> "returned", value |-> value]

Raised(exception) == [kind |-> "raised", value |-> <<exception>>]

\* Before the entry point has returned or raised.
NotYet == [kind |-> "running", value |-> <<>>]

\* The report file: absent, or present with its lines.
NoFile == [exists |-> FALSE, content |-> <<>>]

File(content) == [exists |-> TRUE, content |-> content]

\* The process exit code: none while the process runs.
NoExit == <<>>

Exit(code) == <<code>>

\* ------------------------------------------------------------------- dates

MaxDayOffset == 3

\* The days datetime.now() falls on: from 2026-11-04, from 2026-12-30 (into
\* the next year) and from 2028-02-28 (over a leap day).
ClockDays == {base + k : base \in {20761, 20817, 21242}, k \in 0..MaxDayOffset}

\* datetime.now(), timedelta and strftime('%Y-%m-%d') on day numbers.
IsLeap(year) == (year % 4 = 0 /\ year % 100 # 0) \/ year % 400 = 0

\* The day number (days since 1970-01-01) of January 1 of `year`.
DaysBeforeYear(year) ==
    365 * (year - 1970)
    + ((year - 1) \div 4 - (year - 1) \div 100 + (year - 1) \div 400) - 477

\* The days of `year` that precede its month `month`.
DaysBeforeMonth(year, month) ==
    <<0, 31, 59, 90, 120, 151, 181, 212, 243, 273, 304, 334>>[month]
    + (IF month > 2 /\ IsLeap(year) THEN 1 ELSE 0)

DaysInMonth(year, month) ==
    IF month = 2 THEN (IF IsLeap(year) THEN 29 ELSE 28)
    ELSE IF month \in {4, 6, 9, 11} THEN 30 ELSE 31

\* The calendar date of a day number.
DateOfDay(day) ==
    LET year  == CHOOSE y \in 1970..2100 :
                     DaysBeforeYear(y) <= day /\ day < DaysBeforeYear(y + 1)
        rest  == day - DaysBeforeYear(year)
        month == CHOOSE m \in 1..12 :
                     /\ DaysBeforeMonth(year, m) <= rest
                     /\ rest < DaysBeforeMonth(year, m) + DaysInMonth(year, m)
    IN  [year |-> year, month |-> month, day |-> rest - DaysBeforeMonth(year, month) + 1]

\* n in decimal, zero-padded to `width` characters.
RECURSIVE ZeroPadded(_, _)
ZeroPadded(n, width) ==
    IF width = 0 THEN <<>> ELSE ZeroPadded(n \div 10, width - 1) \o <<ToString(n % 10)>>

\* date.strftime('%Y-%m-%d'), as a string of characters.
strftime(day) ==
    LET date == DateOfDay(day)
    IN  ZeroPadded(date.year, 4) \o <<"-">> \o ZeroPadded(date.month, 2) \o <<"-">>
        \o ZeroPadded(date.day, 2)

\* A mutant of PeriodDays: a month of 31 days.
PeriodDaysLongMonth(period) ==
    CASE period = "day" -> 1 [] period = "week" -> 7 [] period = "month" -> 31
      [] period = "quarter" -> 90 [] period = "year" -> 365

\* The timedelta of each period, in days (weeks=1 is seven days).
PeriodDays(period) ==
    CASE period = "day" -> 1 [] period = "week" -> 7 [] period = "month" -> 30
      [] period = "quarter" -> 90 [] period = "year" -> 365

\* A mutant of get_date_range: an unknown period is taken as a day.
DateRangeDefaultsToDay(period, today) ==
    Returned(<<strftime(today - (IF period \in {"day", "week", "month", "quarter", "year"}
                                 THEN PeriodDays(period) ELSE 1)),
               strftime(today)>>)

\* get_date_range(period) with datetime.now() on the day `today`: the pair
\* (start, end) formatted by strftime, or the ValueError of the else branch.
get_date_range(period, today) ==
    IF period \in {"day", "week", "month", "quarter", "year"}
    THEN Returned(<<strftime(today - PeriodDays(period)), strftime(today)>>)
    ELSE Raised("ValueError")


\* ---- Cost Explorer's answer to a request for an interval

\* The value of a decimal digit character.
DigitValue(char) == CHOOSE n \in 0..9 : ToString(n) = char

\* The number a string of decimal digits denotes.
RECURSIVE Number(_)
Number(digits) ==
    IF digits = <<>> THEN 0
    ELSE 10 * Number(SubSeq(digits, 1, Len(digits) - 1)) + DigitValue(digits[Len(digits)])

\* The day number a 'YYYY-MM-DD' string of a request's TimePeriod denotes.
DayOfText(text) ==
    LET year  == Number(SubSeq(text, 1, 4))
        month == Number(SubSeq(text, 6, 7))
    IN  DaysBeforeYear(year) + DaysBeforeMonth(year, month) + Number(SubSeq(text, 9, 10)) - 1

\* The characters of a string, as one string.
RECURSIVE Flat(_)
Flat(chars) == IF chars = <<>> THEN "" ELSE chars[1] \o Flat(Tail(chars))

\* The first day of the month that follows the month of `day`.
NextMonthStart(day) ==
    LET date == DateOfDay(day)
    IN  day - date.day + 1 + DaysInMonth(date.year, date.month)

\* Granularity='MONTHLY': the time buckets of an answer for the days from
\* `start` up to `end`, one per calendar month, cut at the interval's ends.
RECURSIVE MonthlyBuckets(_, _)
MonthlyBuckets(start, end) ==
    IF start >= end THEN <<>>
    ELSE LET stop == IF NextMonthStart(start) < end THEN NextMonthStart(start) ELSE end
         IN  <<[Start |-> Flat(strftime(start)), End |-> Flat(strftime(stop))]>>
             \o MonthlyBuckets(stop, end)

\* The answers to the two queries of get_s3_costs_by_bucket_with_client for
\* TimePeriod={'Start': start_date, 'End': end_date}: every month has one
\* coarse group and one line item of bucket a.
BillingAnswer(start_date, end_date) ==
    LET months == MonthlyBuckets(DayOfText(start_date), DayOfText(end_date))
    IN  CostData([i \in 1..Len(months) |-> Result(months[i], <<SummaryGroup(1)>>)],
                 [i \in 1..Len(months) |-> Result(months[i], <<DetailGroup(<<"a">>, 1)>>)])

\* ------------------------------------------ format_cost_data on its own

\* The inputs are responses that vary the groups and the line items, and the
\* answers Cost Explorer gives for the interval of each period.

InitFormat ==
    /\ entry = "format_cost_data"
    /\ pc = "format_call"
    /\ region = <<>>
    /\ args_bucket = <<>>
    /\ \/ cost_data \in TotalInputs /\ buckets = <<(<<"a">>)>> /\ NoDatesCall
       \/ cost_data \in AttributionInputs /\ buckets \in BucketLists /\ NoDatesCall
       \/ cost_data = NoCostData /\ buckets = <<(<<"a">>)>> /\ NoDatesCall
       \/ /\ period_arg \in {"day", "week", "month", "quarter", "year"}
          /\ now_day \in ClockDays
          /\ LET dates == get_date_range(period_arg, now_day).value
             IN  cost_data = BillingAnswer(dates[1], dates[2])
          /\ buckets = <<(<<"a">>)>>
    /\ listing = "none"
    /\ calls = <<>>
    /\ formatted = <<>>
    /\ all_costs = <<>>
    /\ filename = <<>>
    /\ report = <<>>
    /\ written = NoFile
    /\ io_failed = "none"
    /\ ret = NotYet
    /\ exit_code = NoExit
    /\ NoRenderCall /\ NoInventory /\ NoLister /\ NoAnalyzer

\* A call of format_cost_data(cost_data, buckets).
FormatCall ==
    /\ pc = "format_call"
    /\ formatted' = format_cost_data(cost_data, buckets)
    /\ pc' = "format_done"
    /\ UNCHANGED <<entry, region, args_bucket, buckets, listing, calls, cost_data,
                   all_costs, filename, report, written, io_failed, ret, exit_code>>
    /\ UNCHANGED <<dates_vars, render_vars, inventory_vars, lister_vars, analyzer_vars>>

NextFormat == FormatCall

SpecFormat == InitFormat /\ [][NextFormat]_vars

\* ------------------------------------------------ get_date_range on its own

\* Period names get_date_range does not know.
InvalidPeriods == {"hour", "Day", "weeks"}

InitDates ==
    /\ entry = "get_date_range"
    /\ pc = "dates_call"
    /\ period_arg \in {"day", "week", "month", "quarter", "year"} \cup InvalidPeriods
    /\ now_day \in ClockDays
    /\ region = <<>>
    /\ args_bucket = <<>>
    /\ buckets = <<>>
    /\ listing = "none"
    /\ calls = <<>>
    /\ cost_data = NoCostData
    /\ formatted = <<>>
    /\ all_costs = <<>>
    /\ filename = <<>>
    /\ report = <<>>
    /\ written = NoFile
    /\ io_failed = "none"
    /\ ret = NotYet
    /\ exit_code = NoExit
    /\ NoRenderCall /\ NoInventory /\ NoLister /\ NoAnalyzer

\* A call of get_date_range(period).
DatesCall ==
    /\ pc = "dates_call"
    /\ ret' = get_date_range(period_arg, now_day)
    /\ pc' = "dates_done"
    /\ UNCHANGED <<entry, region, args_bucket, buckets, listing, calls, cost_data,
                   formatted, all_costs, filename, report, written, io_failed,
                   exit_code>>
    /\ UNCHANGED <<dates_vars, render_vars, inventory_vars, lister_vars, analyzer_vars>>

NextDates == DatesCall

SpecDates == InitDates /\ [][NextDates]_vars

\* --------------------------------------- generate_report_content on its own

MaxVaried == 2

\* The instants datetime.now() is read at, as '%Y-%m-%d %H:%M:%S'.
RenderClock == {"2026-11-04 12:00:00", "2026-11-04 12:00:01"}

\* What one period can hold in all_costs: {} after a failed query, one record
\* with a breakdown, two records without one.
RenderPeriodData ==
    {NoCostData,
     format_cost_data(CostData(<<Result(Month1, <<SummaryGroup(1), SummaryGroup(2)>>)>>,
                               <<Result(Month1, <<DetailGroup(<<"c">>, 1),
                                                  DetailGroup(<<"a">>, 2)>>)>>),
                      <<(<<"a">>)>>),
     format_cost_data(CostData(FixedSummary, <<>>), <<(<<"a">>)>>)}

\* all_costs dictionaries: each of the first MaxVaried periods is absent or
\* holds any of RenderPeriodData; the other periods are all absent or all
\* hold the same data.
RECURSIVE DictOf(_, _)
DictOf(keys, value) ==
    IF keys = <<>> THEN <<>>
    ELSE (IF value[keys[1]].present THEN <<(<<keys[1], value[keys[1]].data>>)>> ELSE <<>>)
         \o DictOf(Tail(keys), value)

RenderInputs ==
    LET choices == {[present |-> FALSE, data |-> NoCostData]}
                   \cup {[present |-> TRUE, data |-> d] : d \in RenderPeriodData}
        varied  == {Periods[i] : i \in 1..MaxVaried}
        others  == {Periods[i] : i \in (MaxVaried + 1)..Len(Periods)}
    IN  {DictOf(Periods, [p \in varied \cup others |-> IF p \in varied THEN v[p] ELSE rest]) :
            v \in [varied -> choices], rest \in choices}

InitRender ==
    /\ entry = "generate_report_content"
    /\ pc = "render_call"
    /\ all_costs \in RenderInputs
    /\ buckets \in {<<(<<"a">>)>>, <<(<<"b">>), (<<"a">>)>>}
    /\ region = <<"us-east-1">>
    /\ renders = <<>>
    /\ args_bucket = <<>>
    /\ listing = "none"
    /\ calls = <<>>
    /\ cost_data = NoCostData
    /\ formatted = <<>>
    /\ filename = <<>>
    /\ report = <<>>
    /\ written = NoFile
    /\ io_failed = "none"
    /\ ret = NotYet
    /\ exit_code = NoExit
    /\ NoDatesCall /\ NoInventory /\ NoLister /\ NoAnalyzer

\* A mutant of render_call: the bucket list is reversed in place.
RenderCallReversesBuckets(all_costs_, buckets_, region_, now) ==
    [text      |-> generate_report_content(all_costs_, buckets_, region_, now),
     all_costs |-> all_costs_,
     buckets   |-> [i \in 1..Len(buckets_) |-> buckets_[Len(buckets_) + 1 - i]]]

\* One call of generate_report_content with the clock at `now`: the text it
\* returns and what it leaves in all_costs and buckets.  The body reads its
\* arguments (.get, .keys, .items, enumerate, len) and appends to the local
\* list `report` only.
render_call(all_costs_, buckets_, region_, now) ==
    [text      |-> generate_report_content(all_costs_, buckets_, region_, now),
     all_costs |-> all_costs_,
     buckets   |-> buckets_]

\* A caller calls generate_report_content(all_costs, buckets, region), up to
\* twice with the same arguments.
RenderCall ==
    /\ pc = "render_call"
    /\ \E now \in RenderClock :
        LET call == render_call(all_costs, buckets, region, now)
        IN  /\ renders' = Append(renders, [now |-> now, text |-> call.text,
                                           all_costs |-> all_costs, buckets |-> buckets])
            /\ all_costs' = call.all_costs
            /\ buckets' = call.buckets
    /\ pc' = IF Len(renders) = 1 THEN "render_done" ELSE "render_call"
    /\ UNCHANGED <<entry, region, args_bucket, listing, calls, cost_data, formatted,
                   filename, report, written, io_failed, ret, exit_code>>
    /\ UNCHANGED <<dates_vars, inventory_vars, lister_vars, analyzer_vars>>

NextRender == RenderCall

SpecRender == InitRender /\ [][NextRender]_vars

\* ------------------------------------------------------------ Cost_Estimate

\* What an API call that raised gives, in place of a response.
ApiError == [Error |-> "ClientError"]

\* The response of list_buckets.
Buckets(names) == [Buckets |-> names]

\* get_s3_buckets_with_client: the names list_buckets returned, [] when it raised.
get_s3_buckets_with_client(list_buckets) ==
    IF list_buckets = ApiError THEN <<>> ELSE list_buckets.Buckets

\* A mutant of get_s3_costs_by_bucket_with_client: without the try/except.
CostsUncaught(coarse, detailed) ==
    IF coarse = ApiError \/ detailed = ApiError THEN Raised("ClientError")
    ELSE Returned(<<(<<"summary", coarse>>), (<<"detailed", detailed>>)>>)

\* get_s3_costs_by_bucket_with_client: both queries are inside one try, and
\* the except returns {}.
get_s3_costs_by_bucket_with_client(coarse, detailed) ==
    IF coarse = ApiError \/ detailed = ApiError THEN Returned(NoCostData)
    ELSE Returned(<<(<<"summary", coarse>>), (<<"detailed", detailed>>)>>)

\* The billing queries one call of get_s3_costs_by_bucket_with_client issues:
\* the detailed one only after the coarse one returned.
BillingCalls(period, dates, coarse, detailed) ==
    <<[period |-> period, query |-> "coarse", dates |-> dates, outcome |-> coarse]>>
    \o (IF coarse = ApiError THEN <<>>
        ELSE <<[period |-> period, query |-> "detailed", dates |-> dates,
                outcome |-> detailed]>>)

\* A mutant of NoBuckets: the guard never holds.
NoBucketsNever(buckets_) == FALSE

\* `not buckets`
NoBuckets(buckets_) == buckets_ = <<>>

\* A mutant of BucketListPart: two names and the count of the others, always.
BucketListPartTwo(buckets_) ==
    IF Len(buckets_) = 1 THEN buckets_[1]
    ELSE Join(SubSeq(buckets_, 1, 2), <<"_">>)
         \o <<"_and_", ToString(Len(buckets_) - 2), "_more">>

\* bucket_list = '_'.join(buckets[:3]); over three, += f'_and_{len(buckets)-3}_more'
BucketListPart(buckets_) ==
    Join(SubSeq(buckets_, 1, IF Len(buckets_) < 3 THEN Len(buckets_) ELSE 3), <<"_">>)
    \o (IF Len(buckets_) > 3
        THEN <<"_and_", ToString(Len(buckets_) - 3), "_more">>
        ELSE <<>>)

\* self.session.region_name
SessionRegion == <<"us-east-1">>

\* region if region else self.session.region_name
RegionInfo(region_) == IF region_ # <<>> THEN region_ ELSE SessionRegion

\* f"{bucket_list}_{region_info}_{timestamp}_cost_report.txt"
ReportFileName(buckets_, region_, timestamp) ==
    BucketListPart(buckets_) \o <<"_">> \o RegionInfo(region_) \o <<"_">>
    \o <<timestamp, "_cost_report.txt">>

OutputDir ==
    IF entry = "analyze_all_buckets" THEN <<"./s3_analysis">> ELSE <<"./cost_reports">>

\* os.path.join(output_dir, filename)
FilePath(filename_) == OutputDir \o <<"/">> \o filename_

\* The instants of the clock: datetime.now() as '%Y%m%d_%H%M%S' and as
\* '%Y-%m-%d %H:%M:%S', and the day number of the date.
Clock ==
    {[stamp |-> "20261104_120000", text |-> "2026-11-04 12:00:00", day |-> 20761]}

\* The bucket lists list_buckets returns in a run.
RunBucketLists ==
    LET all == <<(<<"a">>), (<<"b">>), (<<"a", "b">>), (<<"b", "a">>)>>
    IN  {SubSeq(all, 1, n) : n \in 1..Len(all)}

\* The coarse and the detailed responses of a run.
RunCoarse == {Response(<<Result(Month2, <<SummaryGroup(1), SummaryGroup(2)>>)>>)}

RunDetailed ==
    {Response(<<Result(Month2, <<DetailGroup(<<"c">>, 1), DetailGroup(<<"a">>, 2)>>)>>),
     Response(<<Result(Month2, <<>>)>>)}

InitRun ==
    /\ \/ /\ entry = "Cost_Estimate"
          /\ pc = "ce_clients"
          /\ region \in {<<>>, <<"us-west-2">>}
          /\ args_bucket = <<>>
       \/ /\ entry = "list_s3_and_estimate"
          /\ pc = "main_resolve"
          /\ region = <<"us-east-1">>
          /\ args_bucket \in {<<>>} \cup RunBucketLists
    /\ buckets = <<>>
    /\ listing = "none"
    /\ calls = <<>>
    /\ cost_data = NoCostData
    /\ formatted = <<>>
    /\ all_costs = <<>>
    /\ filename = <<>>
    /\ report = <<>>
    /\ written = NoFile
    /\ io_failed = "none"
    /\ ret = NotYet
    /\ exit_code = NoExit
    /\ NoDatesCall /\ NoRenderCall /\ NoInventory /\ NoLister /\ NoAnalyzer

\* Lines 297-309: with a region, temporary clients are made from the
\* session's credentials; get_credentials() is None when there are none.
CreateClients ==
    /\ pc = "ce_clients"
    /\ \/ /\ region = <<>> \/ region # <<>>
          /\ pc' = "ce_makedirs"
          /\ UNCHANGED ret
       \/ /\ region # <<>>
          /\ pc' = "done"
          /\ ret' = Raised("AttributeError")
    /\ UNCHANGED <<entry, region, args_bucket, buckets, listing, calls, cost_data,
                   formatted, all_costs, filename, report, written, io_failed, exit_code>>
    /\ UNCHANGED <<dates_vars, render_vars, inventory_vars, lister_vars, analyzer_vars>>

\* Line 312: os.makedirs(output_dir, exist_ok=True), outside any try.
MakeDirs ==
    /\ pc = "ce_makedirs"
    /\ \/ /\ pc' = "ce_buckets"
          /\ UNCHANGED <<io_failed, ret>>
       \/ /\ io_failed' = "makedirs"
          /\ pc' = "done"
          /\ ret' = Raised("OSError")
    /\ UNCHANGED <<entry, region, args_bucket, buckets, listing, calls, cost_data,
                   formatted, all_costs, filename, report, written, exit_code>>
    /\ UNCHANGED <<dates_vars, render_vars, inventory_vars, lister_vars, analyzer_vars>>

\* Lines 315-318: the bucket listing, and the return of "" without buckets.
GetBuckets ==
    /\ pc = "ce_buckets"
    /\ \E list_buckets \in {ApiError, Buckets(<<>>)} \cup {Buckets(b) : b \in RunBucketLists} :
        /\ buckets' = get_s3_buckets_with_client(list_buckets)
        /\ listing' = IF list_buckets = ApiError THEN "failed"
                      ELSE IF list_buckets.Buckets = <<>> THEN "empty" ELSE "ok"
        /\ IF NoBuckets(buckets')
           THEN pc' = "done" /\ ret' = Returned(<<>>)
           ELSE pc' = "ce_periods" /\ UNCHANGED ret
    /\ UNCHANGED <<entry, region, args_bucket, calls, cost_data, formatted,
                   all_costs, filename, report, written, io_failed, exit_code>>
    /\ UNCHANGED <<dates_vars, render_vars, inventory_vars, lister_vars, analyzer_vars>>

\* Lines 324-327: one turn of the loop over the periods.
QueryPeriod ==
    /\ pc = "ce_periods"
    /\ Len(all_costs) < Len(Periods)
    /\ \E now \in Clock, coarse \in {ApiError} \cup RunCoarse,
          detailed \in {ApiError} \cup RunDetailed :
        LET period == Periods[Len(all_costs) + 1]
            dates  == get_date_range(period, now.day).value
            result == get_s3_costs_by_bucket_with_client(coarse, detailed)
        IN  /\ coarse = ApiError => detailed = ApiError
            /\ calls' = calls \o BillingCalls(period, dates, coarse, detailed)
            /\ IF result.kind = "raised"
               THEN /\ pc' = "done"
                    /\ ret' = result
                    /\ UNCHANGED <<cost_data, formatted, all_costs>>
               ELSE /\ cost_data' = result.value
                    /\ formatted' = format_cost_data(result.value, buckets)
                    /\ all_costs' = DictSet(all_costs, period, formatted')
                    /\ pc' = IF Len(all_costs') = Len(Periods)
                             THEN "ce_report" ELSE "ce_periods"
                    /\ UNCHANGED ret
    /\ UNCHANGED <<entry, region, args_bucket, buckets, listing, filename, report,
                   written, io_failed, exit_code>>
    /\ UNCHANGED <<dates_vars, render_vars, inventory_vars, lister_vars, analyzer_vars>>

\* Lines 330-341: the file name and the report content.
GenerateReport ==
    /\ pc = "ce_report"
    /\ \E now \in Clock :
        /\ filename' = ReportFileName(buckets, region, now.stamp)
        /\ report' = generate_report_content(all_costs, buckets, RegionInfo(region),
                                             now.text)
    /\ pc' = "ce_save"
    /\ UNCHANGED <<entry, region, args_bucket, buckets, listing, calls, cost_data,
                   formatted, all_costs, written, io_failed, ret, exit_code>>
    /\ UNCHANGED <<dates_vars, render_vars, inventory_vars, lister_vars, analyzer_vars>>

\* Lines 344-351: the write of the report, with its failures caught.
SaveReport ==
    /\ pc = "ce_save"
    /\ \/ /\ written' = File(report)
          /\ ret' = Returned(FilePath(filename))
          /\ UNCHANGED io_failed
       \/ /\ io_failed' = "open"
          /\ ret' = Returned(<<>>)
          /\ UNCHANGED written
       \/ /\ io_failed' = "write"
          /\ written' = File(<<>>)
          /\ ret' = Returned(<<>>)
    /\ pc' = "done"
    /\ UNCHANGED <<entry, region, args_bucket, buckets, listing, calls, cost_data,
                   formatted, all_costs, filename, report, exit_code>>
    /\ UNCHANGED <<dates_vars, render_vars, inventory_vars, lister_vars, analyzer_vars>>

\* ------------------------------------------------- list_s3_and_estimate.main

\* list_all_buckets: the names list_buckets returned, [] when it raised.
list_all_buckets(list_buckets) ==
    IF list_buckets = ApiError THEN <<>> ELSE list_buckets.Buckets

\* Lines 123-130: the buckets in scope, and sys.exit(1) without any.
MainResolve ==
    /\ pc = "main_resolve"
    /\ \/ /\ args_bucket # <<>>
          /\ buckets' = args_bucket
          /\ pc' = "main_inventory"
          /\ UNCHANGED <<listing, exit_code>>
       \/ /\ args_bucket = <<>>
          /\ \E list_buckets \in {ApiError, Buckets(<<>>)}
                                    \cup {Buckets(b) : b \in RunBucketLists} :
              /\ buckets' = list_all_buckets(list_buckets)
              /\ listing' = IF list_buckets = ApiError THEN "failed"
                            ELSE IF list_buckets.Buckets = <<>> THEN "empty" ELSE "ok"
              /\ IF NoBuckets(buckets')
                 THEN pc' = "done" /\ exit_code' = Exit(1)
                 ELSE pc' = "main_inventory" /\ UNCHANGED exit_code
    /\ UNCHANGED <<entry, region, args_bucket, calls, cost_data, formatted,
                   all_costs, filename, report, written, io_failed, ret>>
    /\ UNCHANGED <<dates_vars, render_vars, inventory_vars, lister_vars, analyzer_vars>>

\* Lines 137-144: the inventory of every bucket in scope is printed.
MainInventory ==
    /\ pc = "main_inventory"
    /\ pc' = "main_report"
    /\ UNCHANGED <<entry, region, args_bucket, buckets, listing, calls, cost_data,
                   formatted, all_costs, filename, report, written, io_failed, ret,
                   exit_code>>
    /\ UNCHANGED <<dates_vars, render_vars, inventory_vars, lister_vars, analyzer_vars>>

\* Line 147 with generate_cost_report (lines 77-92): the helper's path or ""
\* is returned, an exception of the helper is caught and None returned; main
\* then ends normally.
MainCostReport ==
    /\ pc = "main_report"
    /\ \E report_path \in {FilePath(<<"report.txt">>), <<>>, <<"None">>} :
        ret' = Returned(report_path)
    /\ pc' = "done"
    /\ exit_code' = Exit(0)
    /\ UNCHANGED <<entry, region, args_bucket, buckets, listing, calls, cost_data,
                   formatted, all_costs, filename, report, written, io_failed>>
    /\ UNCHANGED <<dates_vars, render_vars, inventory_vars, lister_vars, analyzer_vars>>

Next ==
    \/ CreateClients
    \/ MakeDirs
    \/ GetBuckets
    \/ QueryPeriod
    \/ GenerateReport
    \/ SaveReport
    \/ MainResolve
    \/ MainInventory
    \/ MainCostReport

Init == InitRun

Spec == Init /\ [][Next]_vars

\* ------------------------------------------------------ list_bucket_objects

MaxObjects == 4

MaxKeys == 3

\* The objects a page of the model holds (S3 sends up to 1000).
PageSize == 2

\* The state of the cost estimate that the object listers leave alone.
cost_vars == <<region, args_bucket, buckets, calls, cost_data, formatted, all_costs,
               filename, report, written, io_failed, ret>>

\* The objects of a bucket of n objects, as list_objects_v2 gives them.
Objects(n) == [i \in 1..n |-> [Key |-> <<"key", ToString(i)>>, Size |-> i]]

\* The pages the paginator gives for a bucket of n objects: PageSize objects
\* a page, and a single page without Contents for an empty bucket.
Pages(n) ==
    IF n = 0 THEN <<(<<>>)>>
    ELSE [p \in 1..((n + PageSize - 1) \div PageSize) |->
             SubSeq(Objects(n), (p - 1) * PageSize + 1,
                    IF p * PageSize < n THEN p * PageSize ELSE n)]

InitInventory ==
    /\ entry = "list_bucket_objects"
    /\ pc = "inv_page"
    /\ pages \in {Pages(n) : n \in 0..MaxObjects}
    /\ max_keys \in {<<>>} \cup {<<n>> : n \in -1..MaxKeys}
    /\ fetch_all \in BOOLEAN
    /\ cursor = <<0, 1>>
    /\ count = 0
    /\ yielded = <<>>
    /\ listing = "none"
    /\ region = <<"us-east-1">>
    /\ args_bucket = <<>>
    /\ buckets = <<>>
    /\ calls = <<>>
    /\ cost_data = NoCostData
    /\ formatted = <<>>
    /\ all_costs = <<>>
    /\ filename = <<>>
    /\ report = <<>>
    /\ written = NoFile
    /\ io_failed = "none"
    /\ ret = NotYet
    /\ exit_code = NoExit
    /\ NoDatesCall /\ NoRenderCall /\ NoLister /\ NoAnalyzer

\* The cap test with > in place of >=.
CapReachedStrict(fetch_all_, max_keys_, count_) ==
    ~fetch_all_ /\ max_keys_ # <<>> /\ count_ > max_keys_[1]

\* Line 48: not fetch_all and max_keys is not None and count >= max_keys
CapReached(fetch_all_, max_keys_, count_) ==
    ~fetch_all_ /\ max_keys_ # <<>> /\ count_ >= max_keys_[1]

\* Line 44: the paginator gives the next page, or there is none and the
\* generator ends, or the request raises and lines 50-51 end the generator.
NextPage ==
    /\ pc = "inv_page"
    /\ \/ /\ cursor[1] < Len(pages)
          /\ cursor' = <<cursor[1] + 1, 1>>
          /\ pc' = "inv_object"
          /\ UNCHANGED listing
       \/ /\ cursor[1] = Len(pages)
          /\ pc' = "inv_done"
          /\ listing' = "ok"
          /\ UNCHANGED cursor
       \/ /\ cursor[1] < Len(pages)
          /\ pc' = "inv_done"
          /\ listing' = "failed"
          /\ UNCHANGED cursor
    /\ UNCHANGED <<entry, cost_vars, exit_code, pages, max_keys, fetch_all, count, yielded>>
    /\ UNCHANGED <<dates_vars, render_vars, lister_vars, analyzer_vars>>

\* Lines 45-49: the next object of the page is yielded and counted, and the
\* generator returns when the cap is reached; after the last object of the
\* page the next page is asked for.
YieldObject ==
    /\ pc = "inv_object"
    /\ IF cursor[2] > Len(pages[cursor[1]])
       THEN /\ pc' = "inv_page"
            /\ UNCHANGED <<cursor, count, yielded, listing>>
       ELSE /\ yielded' = Append(yielded, <<pages[cursor[1]][cursor[2]].Key,
                                            pages[cursor[1]][cursor[2]].Size>>)
            /\ count' = count + 1
            /\ cursor' = <<cursor[1], cursor[2] + 1>>
            /\ IF CapReached(fetch_all, max_keys, count')
               THEN pc' = "inv_done" /\ listing' = "ok"
               ELSE pc' = "inv_object" /\ UNCHANGED listing
    /\ UNCHANGED <<entry, cost_vars, exit_code, pages, max_keys, fetch_all>>
    /\ UNCHANGED <<dates_vars, render_vars, lister_vars, analyzer_vars>>

NextInventory == NextPage \/ YieldObject

SpecInventory == InitInventory /\ [][NextInventory]_vars

\* --------------------------------------------------------- display_s3objects

\* One AWS request of display_s3objects and its answer: "ok", the Code of a
\* ClientError ("403", "AccessDenied", "404", "NoSuchBucket",
\* "InternalError"), or "Exception" for any other exception.
Request(op, signed, answer) == [op |-> op, signed |-> signed, answer |-> answer]

\* check_aws_credentials: `found` is that get_credentials() is not None, and
\* `identity` is the answer of sts.get_caller_identity().
check_aws_credentials(found, identity) ==
    IF ~found
    THEN [result |-> FALSE, requests |-> <<>>,
          messages |-> <<(<<"No AWS credentials found!">>)>>]
    ELSE IF identity = "ok"
    THEN [result |-> TRUE, requests |-> <<Request("get_caller_identity", TRUE, identity)>>,
          messages |-> <<(<<"AWS credentials loaded">>)>>]
    ELSE [result |-> FALSE, requests |-> <<Request("get_caller_identity", TRUE, identity)>>,
          messages |-> <<(<<"Error checking credentials">>)>>]

\* check_bucket_exists_signed: head_bucket, True only without an exception.
check_bucket_exists_signed(bucket_name, answer) ==
    [result   |-> answer = "ok",
     requests |-> <<Request("head_bucket", TRUE, answer)>>,
     messages |->
        <<(CASE answer = "ok" ->
                    <<"Bucket '">> \o bucket_name \o <<"' exists and is accessible (signed)">>
             [] answer \in {"404", "NoSuchBucket"} ->
                    <<"Bucket '">> \o bucket_name \o <<"' does not exist">>
             [] answer \in {"403", "AccessDenied"} ->
                    <<"Access denied to bucket '">> \o bucket_name \o <<"' (signed)">>
             [] answer = "Exception" ->
                    <<"Unexpected error checking bucket (signed)">>
             [] OTHER ->
                    <<"Error accessing bucket '">> \o bucket_name \o <<"'">>)>>]

\* check_bucket_exists_public: an unsigned list_objects_v2 with MaxKeys=1.
check_bucket_exists_public(bucket_name, answer) ==
    [result   |-> answer = "ok",
     requests |-> <<Request("list_objects_v2", FALSE, answer)>>,
     messages |->
        <<(CASE answer = "ok" ->
                    <<"Bucket '">> \o bucket_name
                    \o <<"' reachable without credentials (public)">>
             [] answer \in {"AccessDenied", "403"} ->
                    <<"Public access denied for bucket '">> \o bucket_name \o <<"'">>
             [] answer \in {"NoSuchBucket", "404"} ->
                    <<"Bucket '">> \o bucket_name \o <<"' does not exist">>
             [] answer = "Exception" ->
                    <<"Unexpected error checking bucket (public)">>
             [] OTHER -> <<"AWS Error (public)">>)>>]

\* A mutant of bucket_exists: auto mode stops at the signed check.
BucketExistsNoFallback(auth_, bucket_name, signed_answer, public_answer) ==
    IF auth_ = "public" THEN check_bucket_exists_public(bucket_name, public_answer)
    ELSE check_bucket_exists_signed(bucket_name, signed_answer)

\* Lines 265-275 of main: the existence check by mode; auto tries the public
\* check whenever the signed check returned False.
bucket_exists(auth_, bucket_name, signed_answer, public_answer) ==
    LET signed == check_bucket_exists_signed(bucket_name, signed_answer)
        public == check_bucket_exists_public(bucket_name, public_answer)
    IN  IF auth_ = "signed" THEN signed
        ELSE IF auth_ = "public" THEN public
        ELSE IF signed.result THEN signed
        ELSE [result   |-> public.result,
              requests |-> signed.requests \o public.requests,
              messages |-> signed.messages
                           \o <<(<<"Trying public/unsigned reachability...">>)>>
                           \o public.messages]

\* _list(mode) of list_s3_objects: the keys of all pages and no error, or no
\* keys and the error code.
ListAnswer(signed, answer, keys) ==
    [objects  |-> IF answer = "ok" THEN keys ELSE <<>>,
     err      |-> IF answer = "ok" THEN "None"
                  ELSE IF answer = "Exception" THEN "Unexpected:" ELSE answer,
     requests |-> <<Request("paginate", signed, answer)>>]

\* list_s3_objects(bucket_name, auth_mode=auth): the keys returned, the
\* requests made and the messages printed.
list_s3_objects(bucket_name, auth_, signed_answer, public_answer, keys) ==
    LET signed == ListAnswer(TRUE, signed_answer, keys)
        public == ListAnswer(FALSE, public_answer, keys)
        found(objects, reqs, before) ==
            [objects  |-> objects,
             requests |-> reqs,
             messages |-> before \o
                 <<(IF objects = <<>>
                    THEN <<"No objects found in bucket '">> \o bucket_name \o <<"'">>
                    ELSE <<"Found ", ToString(Len(objects)), " objects in bucket '">>
                         \o bucket_name \o <<"' [", auth_, "]">>)>>]
        failed(reqs, mode) ==
            [objects |-> <<>>, requests |-> reqs,
             messages |-> <<(<<"AWS Error (", mode, ")">>)>>]
    IN  IF auth_ = "auto"
        THEN IF signed.err = "None" THEN found(signed.objects, signed.requests, <<>>)
             ELSE IF signed.err \in {"AccessDenied", "403"}
             THEN found(public.objects, signed.requests \o public.requests,
                        <<(<<"Signed access denied - retrying with public/unsigned...">>)>>)
             ELSE failed(signed.requests, "auto/signed")
        ELSE LET only == IF auth_ = "public" THEN public ELSE signed
             IN  IF only.err # "None" THEN failed(only.requests, auth_)
                 ELSE found(only.objects, only.requests, <<>>)

\* str.strip() of a typed line.
RECURSIVE strip(_)
strip(line) ==
    IF line = <<>> THEN line
    ELSE IF line[1] = " " THEN strip(Tail(line))
    ELSE IF line[Len(line)] = " " THEN strip(SubSeq(line, 1, Len(line) - 1))
    ELSE line

\* str.isdigit() on the ASCII characters of the model.
isdigit(text) ==
    text # <<>> /\ \A i \in 1..Len(text) : \E n \in 0..9 : ToString(n) = text[i]

\* What resolve_bucket gives: the bucket (<<>> for None), the known buckets,
\* the number of prompts shown, whether list_buckets was requested, and
\* whether input() raised EOFError at the end of the typed lines.
Resolved(bucket_, known, prompts, listed, eof) ==
    [bucket |-> bucket_, known |-> known, prompts |-> prompts, listed |-> listed,
     eof |-> eof]

\* Lines 190-194: the prompt for a public bucket name over the typed lines.
RECURSIVE AskName(_, _)
AskName(typed, prompts) ==
    IF typed = <<>> THEN Resolved(<<>>, <<>>, prompts + 1, FALSE, TRUE)
    ELSE IF strip(typed[1]) # <<>>
    THEN Resolved(<<strip(typed[1])>>, <<>>, prompts + 1, FALSE, FALSE)
    ELSE AskName(Tail(typed), prompts + 1)

\* Lines 207-217: the prompt for a bucket number or name over the typed lines.
RECURSIVE AskChoice(_, _, _)
AskChoice(buckets_, typed, prompts) ==
    IF typed = <<>> THEN Resolved(<<>>, buckets_, prompts + 1, TRUE, TRUE)
    ELSE LET choice == strip(typed[1])
         IN  IF isdigit(choice)
             THEN IF 1 <= Number(choice) /\ Number(choice) <= Len(buckets_)
                  THEN Resolved(<<buckets_[Number(choice)]>>, buckets_, prompts + 1,
                                TRUE, FALSE)
                  ELSE AskChoice(buckets_, Tail(typed), prompts + 1)
             ELSE IF choice # <<>>
             THEN Resolved(<<choice>>, buckets_, prompts + 1, TRUE, FALSE)
             ELSE AskChoice(buckets_, Tail(typed), prompts + 1)

\* `if cli_bucket:` and `if env_bucket:` -- neither None nor "".
Given(name) == name # <<>> /\ name[1] # <<>>

\* A mutant of resolve_bucket: the environment variable goes before the flag.
ResolveEnvFirst(cli_bucket_, env_bucket_, non_interactive_, auth_, list_buckets, typed) ==
    IF Given(env_bucket_) THEN Resolved(env_bucket_, <<>>, 0, FALSE, FALSE)
    ELSE IF Given(cli_bucket_) THEN Resolved(cli_bucket_, <<>>, 0, FALSE, FALSE)
    ELSE Resolved(<<>>, <<>>, 0, FALSE, FALSE)

\* resolve_bucket; list_buckets is the answer display_s3objects.list_all_buckets
\* gets (its except clauses give []), typed the lines the user types.
resolve_bucket(cli_bucket_, env_bucket_, non_interactive_, auth_, list_buckets, typed) ==
    IF Given(cli_bucket_) THEN Resolved(cli_bucket_, <<>>, 0, FALSE, FALSE)
    ELSE IF Given(env_bucket_) THEN Resolved(env_bucket_, <<>>, 0, FALSE, FALSE)
    ELSE IF auth_ = "public"
    THEN IF non_interactive_ THEN Resolved(<<>>, <<>>, 0, FALSE, FALSE)
         ELSE AskName(typed, 0)
    ELSE LET buckets_ == IF list_buckets = ApiError THEN <<>> ELSE list_buckets.Buckets
         IN  IF buckets_ = <<>> THEN Resolved(<<>>, <<>>, 0, TRUE, FALSE)
             ELSE IF non_interactive_ THEN Resolved(<<>>, buckets_, 0, TRUE, FALSE)
             ELSE AskChoice(buckets_, typed, 0)

\* A mutant of CredentialsFatal: a failed check ends the run in auto mode too.
CredentialsFatalAlways(auth_, ok) == ~ok

\* Lines 241-243: a failed credential check ends the run in signed mode only.
CredentialsFatal(auth_, ok) == ~ok /\ auth_ = "signed"

\* The answers of a request: success, the codes head_bucket and
\* list_objects_v2 give for access denied and for a missing bucket, and an
\* exception that is no ClientError.
Answers == {"ok", "403", "AccessDenied", "404", "Exception"}

\* The lines a user types at the prompts, up to the end of input.
TypedLines ==
    {<<>>,
     <<(<<"2">>)>>,
     <<(<<" ", "c", " ">>)>>,
     <<(<<"9">>), (<<"1">>)>>,
     <<(<<>>), (<<"c">>)>>}

InitLister ==
    /\ entry = "display_s3objects"
    /\ pc = "ls_credentials"
    /\ auth \in {"auto", "signed", "public"}
    /\ cli_bucket \in {<<>>, <<(<<>>)>>, <<(<<"c">>)>>}
    /\ env_bucket \in {<<>>, <<(<<>>)>>, <<(<<"e">>)>>}
    /\ non_interactive \in BOOLEAN
    /\ bucket = <<>>
    /\ known_buckets = <<>>
    /\ requests = <<>>
    /\ output = <<>>
    /\ exit_code = NoExit
    /\ listing = "none"
    /\ region = <<>>
    /\ args_bucket = <<>>
    /\ buckets = <<>>
    /\ calls = <<>>
    /\ cost_data = NoCostData
    /\ formatted = <<>>
    /\ all_costs = <<>>
    /\ filename = <<>>
    /\ report = <<>>
    /\ written = NoFile
    /\ io_failed = "none"
    /\ ret = NotYet
    /\ NoDatesCall /\ NoRenderCall /\ NoInventory /\ NoAnalyzer

\* Lines 239-247: the credential check, skipped in public mode.
LsCredentials ==
    /\ pc = "ls_credentials"
    /\ IF auth = "public"
       THEN /\ output' = Append(output,
                            <<"Public/unsigned mode: skipping credential checks.">>)
            /\ pc' = "ls_resolve"
            /\ UNCHANGED <<requests, exit_code>>
       ELSE \E found \in BOOLEAN, identity \in {"ok", "Exception"} :
            LET check == check_aws_credentials(found, identity)
            IN  /\ requests' = requests \o check.requests
                /\ IF CredentialsFatal(auth, check.result)
                   THEN /\ output' = output \o check.messages
                        /\ pc' = "done"
                        /\ exit_code' = Exit(1)
                   ELSE /\ output' = output \o check.messages
                               \o (IF check.result THEN <<>>
                                   ELSE <<(<<"Falling back to public access where possible.">>)>>)
                        /\ pc' = "ls_resolve"
                        /\ UNCHANGED exit_code
    /\ UNCHANGED <<entry, listing, cost_vars, auth, cli_bucket, env_bucket,
                   non_interactive, bucket, known_buckets>>
    /\ UNCHANGED <<dates_vars, render_vars, inventory_vars, analyzer_vars>>

\* Lines 250-262: the bucket is resolved; without one the run ends with 1,
\* as it does when input() raises EOFError out of main.
LsResolve ==
    /\ pc = "ls_resolve"
    /\ \E list_buckets \in {ApiError, Buckets(<<>>), Buckets(<<(<<"a">>), (<<"b">>)>>)},
          typed \in TypedLines :
        LET r == resolve_bucket(cli_bucket, env_bucket, non_interactive, auth,
                                list_buckets, typed)
        IN  /\ bucket' = r.bucket
            /\ known_buckets' = r.known
            /\ requests' = requests \o
                   (IF r.listed
                    THEN <<Request("list_buckets", TRUE,
                                   IF list_buckets = ApiError THEN "Exception" ELSE "ok")>>
                    ELSE <<>>)
            /\ output' = output
                   \o [i \in 1..r.prompts |-> <<"Enter bucket">>]
                   \o (IF r.eof THEN <<(<<"EOFError">>)>>
                       ELSE IF r.bucket = <<>>
                       THEN <<(<<"No bucket specified and none selected.">>)>>
                       ELSE <<(<<"Target bucket: '">> \o r.bucket[1] \o <<"'">>)>>)
            /\ IF r.bucket = <<>>
               THEN pc' = "done" /\ exit_code' = Exit(1)
               ELSE pc' = "ls_exists" /\ UNCHANGED exit_code
    /\ UNCHANGED <<entry, listing, cost_vars, auth, cli_bucket, env_bucket,
                   non_interactive>>
    /\ UNCHANGED <<dates_vars, render_vars, inventory_vars, analyzer_vars>>

\* Lines 264-282: the existence check by mode; the run ends with 1 when the
\* bucket is not reachable.
LsExists ==
    /\ pc = "ls_exists"
    /\ \E signed_answer \in Answers, public_answer \in Answers :
        LET check == bucket_exists(auth, bucket[1], signed_answer, public_answer)
        IN  /\ requests' = requests \o check.requests
            /\ output' = output \o check.messages
            /\ IF check.result
               THEN pc' = "ls_list" /\ UNCHANGED exit_code
               ELSE pc' = "done" /\ exit_code' = Exit(1)
    /\ UNCHANGED <<entry, listing, cost_vars, auth, cli_bucket, env_bucket,
                   non_interactive, bucket, known_buckets>>
    /\ UNCHANGED <<dates_vars, render_vars, inventory_vars, analyzer_vars>>

\* Lines 284-296: the objects are listed and shown, and main returns.
LsList ==
    /\ pc = "ls_list"
    /\ \E signed_answer \in Answers, public_answer \in Answers,
          keys \in {<<>>, <<"k1", "k2">>} :
        LET list == list_s3_objects(bucket[1], auth, signed_answer, public_answer, keys)
        IN  /\ requests' = requests \o list.requests
            /\ output' = output \o list.messages
                         \o [i \in 1..Len(list.objects) |-> <<"  ", list.objects[i]>>]
                         \o <<(<<"Script completed successfully!">>)>>
    /\ pc' = "done"
    /\ exit_code' = Exit(0)
    /\ UNCHANGED <<entry, listing, cost_vars, auth, cli_bucket, env_bucket,
                   non_interactive, bucket, known_buckets>>
    /\ UNCHANGED <<dates_vars, render_vars, inventory_vars, analyzer_vars>>

NextLister == LsCredentials \/ LsResolve \/ LsExists \/ LsList

SpecLister == InitLister /\ [][NextLister]_vars

\* ---------------------------------------------------- integrated_s3_analyzer

\* str.lower() on the characters of the model's object keys.
lower(chars) ==
    [i \in 1..Len(chars) |->
        CASE chars[i] = "T" -> "t" [] chars[i] = "X" -> "x" [] OTHER -> chars[i]]

\* `sep in chars`
HasChar(chars, sep) == \E i \in 1..Len(chars) : chars[i] = sep

\* chars.split(sep)[-1]: what follows the last sep.
AfterLast(chars, sep) ==
    LET last == CHOOSE i \in 1..Len(chars) :
                    chars[i] = sep /\ \A j \in (i + 1)..Len(chars) : chars[j] # sep
    IN  SubSeq(chars, last + 1, Len(chars))

\* chars.split(sep)[0]: what comes before the first sep.
BeforeFirst(chars, sep) ==
    LET first == CHOOSE i \in 1..Len(chars) :
                     chars[i] = sep /\ \A j \in 1..(i - 1) : chars[j] # sep
    IN  SubSeq(chars, 1, first - 1)

\* d[k] = d.get(k, 0) + 1
CountUp(d, k) == DictSet(d, k, (IF DictHas(d, k) THEN DictGet(d, k) ELSE 0) + 1)

\* Lines 122-126 over the keys: the extensions counted.
RECURSIVE ObjectTypes(_, _)
ObjectTypes(objects, object_types) ==
    IF objects = <<>> THEN object_types
    ELSE ObjectTypes(Tail(objects),
            CountUp(object_types,
                    IF HasChar(objects[1], ".") THEN lower(AfterLast(objects[1], "."))
                    ELSE <<"no_extension">>))

\* Lines 129-133 over the keys: the top folders counted.
RECURSIVE FolderStructure(_, _)
FolderStructure(objects, folder_structure) ==
    IF objects = <<>> THEN folder_structure
    ELSE FolderStructure(Tail(objects),
            CountUp(folder_structure,
                    IF HasChar(objects[1], "/") THEN BeforeFirst(objects[1], "/")
                    ELSE <<"root">>))

\* analyze_single_bucket: list_s3_objects(bucket_name, region) runs in its
\* default signed mode and catches every exception itself, so the analysis
\* never carries an error; the time stamp of the analysis is left out.
analyze_single_bucket(bucket_name, answer, keys) ==
    LET list == list_s3_objects(bucket_name, "signed", answer, answer, keys)
    IN  [analysis |->
            [bucket_name      |-> bucket_name,
             object_count     |-> Len(list.objects),
             objects          |-> list.objects,
             object_types     |-> ObjectTypes(list.objects, <<>>),
             folder_structure |-> FolderStructure(list.objects, <<>>)],
         requests |-> list.requests,
         messages |-> list.messages]

\* display_s3objects.list_all_buckets: the names list_buckets returned, []
\* when it raised.
display_list_all_buckets(list_buckets) ==
    IF list_buckets = ApiError
    THEN [buckets  |-> <<>>,
          requests |-> <<Request("list_buckets", TRUE, "Exception")>>,
          messages |-> <<(<<"Error listing buckets">>)>>]
    ELSE [buckets  |-> list_buckets.Buckets,
          requests |-> <<Request("list_buckets", TRUE, "ok")>>,
          messages |-> <<(<<"Found ", ToString(Len(list_buckets.Buckets)),
                            " accessible buckets">>)>>]

\* The bucket lists the account shows when analyze_all_buckets lists them.
AnalyzerBucketLists == {<<(<<"a">>)>>, <<(<<"b">>), (<<"a">>)>>}

\* The keys of a bucket's objects: "l/a.TXT" and "readme".
AnalyzerKeys ==
    {<<(<<"l", "/", "a", ".", "T", "X", "T">>), (<<"r", "e", "a", "d", "m", "e">>)>>}

InitAnalyzer ==
    /\ entry = "analyze_all_buckets"
    /\ pc = "an_credentials"
    /\ region = <<>>
    /\ args_bucket = <<>>
    /\ buckets = <<>>
    /\ listing = "none"
    /\ calls = <<>>
    /\ cost_data = NoCostData
    /\ formatted = <<>>
    /\ all_costs = <<>>
    /\ filename = <<>>
    /\ report = <<>>
    /\ written = NoFile
    /\ io_failed = "none"
    /\ ret = NotYet
    /\ exit_code = NoExit
    /\ NoDatesCall /\ NoRenderCall /\ NoInventory /\ NoLister /\ NoAnalyzer

\* Lines 45-47: without credentials the analysis returns an error.
AnCredentials ==
    /\ pc = "an_credentials"
    /\ \E found \in BOOLEAN, identity \in {"ok", "Exception"} :
        LET check == check_aws_credentials(found, identity)
        IN  /\ requests' = requests \o check.requests
            /\ output' = output \o check.messages
            /\ IF check.result
               THEN pc' = "an_makedirs" /\ UNCHANGED analysis_results
               ELSE /\ pc' = "an_done"
                    /\ analysis_results' =
                         [NoResults EXCEPT !.error = "AWS credentials not configured"]
    /\ UNCHANGED <<entry, listing, cost_vars, exit_code, analysis_buckets>>
    /\ UNCHANGED <<auth, cli_bucket, env_bucket, non_interactive, bucket, known_buckets>>
    /\ UNCHANGED <<dates_vars, render_vars, inventory_vars>>

\* Line 50: os.makedirs(output_dir, exist_ok=True), outside any try.
AnMakeDirs ==
    /\ pc = "an_makedirs"
    /\ \/ /\ pc' = "an_buckets"
          /\ UNCHANGED <<io_failed, ret>>
       \/ /\ io_failed' = "makedirs"
          /\ pc' = "an_done"
          /\ ret' = Raised("OSError")
    /\ UNCHANGED <<entry, region, args_bucket, buckets, listing, calls, cost_data,
                   formatted, all_costs, filename, report, written, exit_code>>
    /\ UNCHANGED <<dates_vars, render_vars, inventory_vars, lister_vars, analyzer_vars>>

\* Lines 52-64: the buckets to analyse are listed, and analysis_results is
\* built; without buckets the analysis returns an error.
AnListBuckets ==
    /\ pc = "an_buckets"
    /\ \E list_buckets \in {ApiError, Buckets(<<>>)}
                              \cup {Buckets(b) : b \in AnalyzerBucketLists} :
        LET listed == display_list_all_buckets(list_buckets)
        IN  /\ analysis_buckets' = listed.buckets
            /\ requests' = requests \o listed.requests
            /\ IF listed.buckets = <<>>
               THEN /\ pc' = "an_done"
                    /\ analysis_results' =
                         [NoResults EXCEPT !.error = "No accessible buckets found"]
                    /\ output' = output \o listed.messages
               ELSE /\ pc' = "an_bucket"
                    /\ analysis_results' =
                         [NoResults EXCEPT !.total_buckets = Len(listed.buckets)]
                    /\ output' = output \o listed.messages
                         \o <<(<<"Analyzing ", ToString(Len(listed.buckets)),
                                 " buckets...">>)>>
    /\ UNCHANGED <<entry, listing, cost_vars, exit_code>>
    /\ UNCHANGED <<auth, cli_bucket, env_bucket, non_interactive, bucket, known_buckets>>
    /\ UNCHANGED <<dates_vars, render_vars, inventory_vars>>

\* Lines 66-78: one turn of the loop over the buckets; after the last bucket
\* the cost report is asked of Cost_Estimate(output_dir=output_dir).
AnBucket ==
    /\ pc = "an_bucket"
    /\ \E answer \in {"ok", "AccessDenied"}, keys \in AnalyzerKeys :
        LET i           == Len(analysis_results.buckets) + 1
            bucket_name == analysis_buckets[i]
            result      == analyze_single_bucket(bucket_name, answer, keys)
        IN  /\ analysis_results' =
                 [analysis_results EXCEPT
                    !.buckets = DictSet(@, bucket_name, result.analysis)]
            /\ requests' = requests \o result.requests
            /\ output' = output
                 \o <<(<<"[", ToString(i), "/", ToString(Len(analysis_buckets)),
                         "] Analyzing bucket: ">> \o bucket_name)>>
                 \o result.messages
                 \o <<(<<"   Objects: ", ToString(result.analysis.object_count)>>)>>
                 \o (IF i = Len(analysis_buckets)
                     THEN <<(<<"Generating cost report...">>)>> ELSE <<>>)
            /\ pc' = IF i = Len(analysis_buckets) THEN "ce_clients" ELSE "an_bucket"
    /\ UNCHANGED <<entry, listing, cost_vars, exit_code, analysis_buckets>>
    /\ UNCHANGED <<auth, cli_bucket, env_bucket, non_interactive, bucket, known_buckets>>
    /\ UNCHANGED <<dates_vars, render_vars, inventory_vars>>

\* Lines 79-91, after Cost_Estimate returned: the path of the cost report is
\* recorded ("" when there is none) and the analysis is saved as JSON, a
\* failure of which is caught.  An exception of Cost_Estimate leaves
\* analyze_all_buckets before line 79.
AnSave ==
    /\ entry = "analyze_all_buckets"
    /\ pc = "done"
    /\ ret.kind = "returned"
    /\ \E now \in Clock, saved \in BOOLEAN :
        /\ analysis_results' =
             [analysis_results EXCEPT
                !.cost_report_path = ret.value,
                !.analysis_file_path =
                    IF saved
                    THEN OutputDir \o <<"/", "s3_analysis_", now.stamp, ".json">>
                    ELSE <<>>]
        /\ output' = Append(output, IF saved THEN <<"Analysis saved to">>
                                    ELSE <<"Error saving analysis">>)
    /\ pc' = "an_done"
    /\ UNCHANGED <<entry, listing, cost_vars, exit_code, analysis_buckets>>
    /\ UNCHANGED <<auth, cli_bucket, env_bucket, non_interactive, bucket, known_buckets,
                   requests>>
    /\ UNCHANGED <<dates_vars, render_vars, inventory_vars>>

NextAnalyzer ==
    \/ AnCredentials
    \/ AnMakeDirs
    \/ AnListBuckets
    \/ AnBucket
    \/ CreateClients
    \/ MakeDirs
    \/ GetBuckets
    \/ QueryPeriod
    \/ GenerateReport
    \/ SaveReport
    \/ AnSave

SpecAnalyzer == InitAnalyzer /\ [][NextAnalyzer]_vars

\* ----------------------------------------------- claims on format_cost_data

\* The detailed line items of the time bucket `key`, in response order.
RECURSIVE ItemsOf(_, _)
ItemsOf(results, key) ==
    IF results = <<>> THEN <<>>
    ELSE (IF PeriodKey(results[1]) = key THEN results[1].Groups ELSE <<>>)
         \o ItemsOf(Tail(results), key)

DetailedItems(key) ==
    IF cost_data # NoCostData /\ DictHas(cost_data, "detailed")
    THEN ItemsOf(DictGet(cost_data, "detailed").ResultsByTime, key)
    ELSE <<>>

\* The bucket names that are substrings of the item's resource identifier.
Holders(item) == {i \in 1..Len(buckets) : Contains(item.Keys[1], buckets[i])}

\* The first of them in bucket-list order.
FirstHolder(item) == buckets[CHOOSE i \in Holders(item) : \A j \in Holders(item) : i <= j]

RECURSIVE FloatSum(_)
FloatSum(items) ==
    IF items = <<>> THEN FZero
    ELSE FloatAdd(FloatSum(SubSeq(items, 1, Len(items) - 1)),
                  float(items[Len(items)].Amount))

Breakdown(key) == DictGet(formatted, key).bucket_breakdown

Formatted == pc = "format_done"

\* C1: every detailed line item of a time bucket that has a summary record is
\* added under the first bucket name, in bucket-list order, that is a
\* substring of its resource identifier: each bucket name's entry is the sum of
\* exactly the items it is the first holder of, and a name that is the first
\* holder of no item has no entry.
C1_FirstMatchAttribution ==
    Formatted =>
        \A k \in 1..Len(formatted) : \A b \in 1..Len(buckets) :
            LET key   == formatted[k][1]
                Mine(item) == Holders(item) # {} /\ FirstHolder(item) = buckets[b]
                owned == SelectSeq(DetailedItems(key), Mine)
            IN  IF owned = <<>> THEN ~DictHas(Breakdown(key), buckets[b])
                ELSE /\ DictHas(Breakdown(key), buckets[b])
                     /\ DictGet(Breakdown(key), buckets[b]) = FloatSum(owned)

\* C1's case: an item whose identifier holds two bucket names of the list has
\* been attributed, and the later of the two names has no entry.
C1_Witness ==
    /\ Formatted
    /\ \E k \in 1..Len(formatted) :
        LET key == formatted[k][1]
        IN  /\ \E n \in 1..Len(DetailedItems(key)) :
                    Cardinality(Holders(DetailedItems(key)[n])) >= 2
            /\ DictHas(Breakdown(key), buckets[1])
            /\ ~DictHas(Breakdown(key), buckets[Len(buckets)])
            /\ Len(buckets) >= 2

\* C2: the detailed line items whose resource identifier holds no bucket name
\* are summed under "Other S3 Costs", and a bucket name that no item of the
\* time bucket holds has no entry.
C2_UnmatchedToSentinel ==
    Formatted =>
        \A k \in 1..Len(formatted) :
            LET key   == formatted[k][1]
                items == DetailedItems(key)
                Unmatched(item) == Holders(item) = {}
                other == SelectSeq(items, Unmatched)
            IN  /\ IF other = <<>> THEN ~DictHas(Breakdown(key), OtherS3Costs)
                   ELSE /\ DictHas(Breakdown(key), OtherS3Costs)
                        /\ DictGet(Breakdown(key), OtherS3Costs) = FloatSum(other)
                /\ \A b \in 1..Len(buckets) :
                        (\A n \in 1..Len(items) : b \notin Holders(items[n]))
                            => ~DictHas(Breakdown(key), buckets[b])

\* C2's case: an unmatched item and a matched one of the same time bucket.
C2_Witness ==
    /\ Formatted
    /\ \E k \in 1..Len(formatted) :
        LET key == formatted[k][1]
        IN  /\ DictHas(Breakdown(key), OtherS3Costs)
            /\ Len(Breakdown(key)) = 2
            /\ \E n \in 1..Len(DetailedItems(key)) : Holders(DetailedItems(key)[n]) = {}

\* The permutations of a sequence.
Permutations_(s) ==
    {[i \in 1..Len(s) |-> s[p[i]]] :
        p \in {q \in [1..Len(s) -> 1..Len(s)] : \A i, j \in 1..Len(s) : q[i] = q[j] => i = j}}

SummaryResults ==
    IF cost_data # NoCostData /\ DictHas(cost_data, "summary")
    THEN DictGet(cost_data, "summary").ResultsByTime
    ELSE <<>>

\* C3: the total cost recorded for a time bucket is the sum of the amounts of
\* its coarse groups, the same whichever permutation of the groups is summed.
C3_TotalIsOrderIndependentSum ==
    Formatted =>
        \A r \in 1..Len(SummaryResults) :
            LET groups == SummaryResults[r].Groups
                total  == DictGet(formatted, PeriodKey(SummaryResults[r])).total_s3_cost
            IN  \A perm \in Permutations_(groups) : SumGroups(perm, FZero) = total

\* sum(bucket_breakdown.values()), in the order of the dict.
RECURSIVE ValuesSum(_)
ValuesSum(bucket_breakdown) ==
    IF bucket_breakdown = <<>> THEN FZero
    ELSE FloatAdd(ValuesSum(SubSeq(bucket_breakdown, 1, Len(bucket_breakdown) - 1)),
                  bucket_breakdown[Len(bucket_breakdown)][2])

\* The key an item is counted under.
KeyOf(item) == IF Holders(item) = {} THEN OtherS3Costs ELSE FirstHolder(item)

\* The detailed results whose time bucket has a summary record.
Summarised(results) ==
    LET HasRecord(result) == DictHas(formatted, PeriodKey(result))
    IN  SelectSeq(results, HasRecord)

\* Every entry of every bucket_breakdown is the sum of the items counted under
\* its key, every item of the time bucket is counted under the one key KeyOf
\* gives it, and the detailed results of a time bucket without a summary
\* record change nothing.
ItemsCountedOnce ==
    Formatted =>
        /\ \A k \in 1..Len(formatted) :
                LET key   == formatted[k][1]
                    items == DetailedItems(key)
                IN  /\ {Breakdown(key)[e][1] : e \in 1..Len(Breakdown(key))}
                            = {KeyOf(items[n]) : n \in 1..Len(items)}
                    /\ \A e \in 1..Len(Breakdown(key)) :
                            LET Under(item) == KeyOf(item) = Breakdown(key)[e][1]
                            IN  Breakdown(key)[e][2] = FloatSum(SelectSeq(items, Under))
        /\ (cost_data # NoCostData /\ DictHas(cost_data, "detailed")
                /\ DictHas(cost_data, "summary")) =>
                formatted = format_cost_data(
                    DictSet(cost_data, "detailed",
                            Response(Summarised(DictGet(cost_data, "detailed").ResultsByTime))),
                    buckets)

\* C22: attribution conserves the detailed amounts: for every time bucket
\* that has a summary record, the sum of the values of its bucket_breakdown
\* equals the sum of the amounts of its detailed line items.
C22_BreakdownSumsToDetailedItems ==
    Formatted =>
        \A k \in 1..Len(formatted) :
            ValuesSum(Breakdown(formatted[k][1])) = FloatSum(DetailedItems(formatted[k][1]))

\* -------------------------------------------------- claims on Cost_Estimate

Rendered == report # <<>>

\* The periods one of whose billing queries raised.
FailedPeriods == {calls[i].period : i \in {j \in 1..Len(calls) : calls[j].outcome = ApiError}}

NoBreakdownLine == <<"  (No detailed breakdown available)">>

DetailHeader(period) == <<"DETAILED BREAKDOWN - ", upper(period)>>

IsSummaryRow(line, period) == line # <<>> /\ line[1] = capitalize(period)

\* C4: when the coarse query of a period returns and its detailed query
\* raises, the period's record carries the total of the coarse response and an
\* empty bucket_breakdown, rendered as no breakdown available.
C4_DetailedFailureKeepsTotal ==
    \A i \in 1..Len(calls) :
        (calls[i].query = "detailed" /\ calls[i].outcome = ApiError) =>
            LET coarse  == calls[i - 1].outcome.ResultsByTime
                records == DictGet(all_costs, calls[i].period)
            IN  /\ Len(records) = Len(coarse)
                /\ \A r \in 1..Len(records) :
                    /\ records[r][2].bucket_breakdown = <<>>
                    /\ records[r][2].total_s3_cost = SumGroups(coarse[r].Groups, FZero)
                /\ Rendered =>
                        \E h \in 1..(Len(report) - 4) :
                            /\ report[h] = DetailHeader(calls[i].period)
                            /\ report[h + 4] = NoBreakdownLine

\* C5: a period whose billing query failed has no summary row and no detail
\* header in the report.
C5_FailedPeriodAbsentFromReport ==
    Rendered =>
        \A period \in FailedPeriods : \A n \in 1..Len(report) :
            /\ ~IsSummaryRow(report[n], period)
            /\ report[n] # DetailHeader(period)

\* The periods of the coarse queries, in the order they were issued.
QueriedPeriods ==
    LET IsCoarse(call) == call.query = "coarse"
        coarse == SelectSeq(calls, IsCoarse)
    IN  [i \in 1..Len(coarse) |-> coarse[i].period]

\* C6: a billing-query failure never stops Cost_Estimate: the periods are
\* queried once each in the order day, week, month, quarter, year, all five
\* of them before the report is generated, and unless the file system fails
\* the run ends with the report written and its path returned.
C6_QueryFailureNeverStopsRun ==
    entry = "Cost_Estimate" =>
        /\ Len(QueriedPeriods) <= Len(Periods)
        /\ QueriedPeriods = SubSeq(Periods, 1, Len(QueriedPeriods))
        /\ \A i, j \in 1..Len(calls) :
                (calls[i].period = calls[j].period /\ calls[i].query = calls[j].query)
                    => i = j
        /\ (pc \in {"ce_report", "ce_save"} \/ (pc = "done" /\ listing = "ok"))
                => QueriedPeriods = Periods
        /\ (pc = "done" /\ listing = "ok" /\ io_failed = "none")
                => /\ Rendered
                   /\ written = File(report)
                   /\ ret = Returned(FilePath(filename))

\* C6's case: the queries of the first period and of the last raised, and the
\* report was written.
C6_Witness ==
    /\ entry = "Cost_Estimate"
    /\ pc = "done"
    /\ Rendered
    /\ written = File(report)
    /\ {"day", "year"} \subseteq FailedPeriods

\* C7: when the bucket listing returns nothing or fails (and no bucket was
\* given), the run ends at once: no billing query is issued, no report is
\* rendered or written, Cost_Estimate returns "" and list_s3_and_estimate
\* exits with code 1 before it asks for the cost report.
C7_NoBucketsAbortsRun ==
    listing \in {"empty", "failed"} =>
        /\ pc = "done"
        /\ calls = <<>>
        /\ ~Rendered
        /\ written = NoFile
        /\ entry = "Cost_Estimate" => ret = Returned(<<>>)
        /\ entry = "list_s3_and_estimate" => exit_code = Exit(1) /\ ret = NotYet

\* C7's case: the listing failed and Cost_Estimate returned "".
C7_Witness ==
    /\ entry = "Cost_Estimate"
    /\ listing = "failed"
    /\ ret = Returned(<<>>)

IsEntryLine(line) == line # <<>> /\ line[1] = "  - "

\* The hundredths that the amount at the end of an entry line writes.
EntryCents(line) ==
    CHOOSE c \in 0..999 : CentsText(c) = SubSeq(line, Len(line) - 3, Len(line))

\* C8: the entries of a bucket_breakdown are listed in descending order of
\* cost: no entry line of the report is followed by one of a greater amount.
C8_BreakdownListedDescending ==
    \A n \in 1..(Len(report) - 1) :
        (IsEntryLine(report[n]) /\ IsEntryLine(report[n + 1]))
            => EntryCents(report[n]) >= EntryCents(report[n + 1])

FileNameTail(now) ==
    <<"_">> \o RegionInfo(region) \o <<"_", now.stamp, "_cost_report.txt">>

\* C9 as the spec states it: the name-part is the first bucket name for one
\* bucket, and otherwise "<first>_<second>_and_<n-2>_more".
C9_NamePartFirstTwoAndRest ==
    filename # <<>> =>
        \E now \in Clock :
            filename =
                (IF Len(buckets) = 1 THEN buckets[1]
                 ELSE buckets[1] \o <<"_">> \o buckets[2]
                      \o <<"_and_", ToString(Len(buckets) - 2), "_more">>)
                \o FileNameTail(now)

\* C9, amended: the name-part is the first three bucket names (all of them
\* when there are fewer) joined by "_", followed by "_and_<n-3>_more" when
\* there are more than three; the file name is
\* <name-part>_<region>_<timestamp>_cost_report.txt.
C9_NamePartFirstThreeAndRest ==
    filename # <<>> =>
        \E now \in Clock :
            filename =
                (CASE Len(buckets) = 1 -> buckets[1]
                   [] Len(buckets) = 2 -> buckets[1] \o <<"_">> \o buckets[2]
                   [] Len(buckets) = 3 ->
                        buckets[1] \o <<"_">> \o buckets[2] \o <<"_">> \o buckets[3]
                   [] Len(buckets) > 3 ->
                        buckets[1] \o <<"_">> \o buckets[2] \o <<"_">> \o buckets[3]
                        \o <<"_and_", ToString(Len(buckets) - 3), "_more">>)
                \o FileNameTail(now)

\* C9's case: the file name of a run with more than three buckets.
C9_Witness == filename # <<>> /\ Len(buckets) > 3 /\ region # <<>>

\* C10: a failure of the directory creation or of the write is caught, and
\* Cost_Estimate returns "".
C10_PersistenceFailureCaught ==
    io_failed # "none" => ret = Returned(<<>>)

\* ------------------------------------ claims on the records of one period

\* The keys of the time buckets of a response, each once, in order.
RECURSIVE TimeBucketKeys(_, _)
TimeBucketKeys(results, seen) ==
    IF results = <<>> THEN <<>>
    ELSE IF PeriodKey(results[1]) \in seen THEN TimeBucketKeys(Tail(results), seen)
    ELSE <<PeriodKey(results[1])>>
         \o TimeBucketKeys(Tail(results), seen \cup {PeriodKey(results[1])})

\* The interval get_date_range derives for the period of the call.
DerivedInterval == get_date_range(period_arg, now_day).value

\* The calendar months the days from `start` up to `end` fall in.
MonthsOverlapped(start, end) ==
    LET first == DateOfDay(start)
        last  == DateOfDay(end - 1)
    IN  (12 * last.year + last.month) - (12 * first.year + first.month) + 1

IsDateText(text) ==
    /\ Len(text) = 10
    /\ text[5] = "-" /\ text[8] = "-"
    /\ \A i \in {1, 2, 3, 4, 6, 7, 9, 10} : \E n \in 0..9 : ToString(n) = text[i]
    /\ Number(SubSeq(text, 6, 7)) \in 1..12
    /\ Number(SubSeq(text, 9, 10))
           \in 1..DaysInMonth(Number(SubSeq(text, 1, 4)), Number(SubSeq(text, 6, 7)))

\* s < t as Python compares strings of digits and "-", character by character.
RECURSIVE TextLess(_, _)
TextLess(s, t) ==
    LET rank(c) == IF c = "-" THEN 0 ELSE 1 + DigitValue(c)
    IN  IF t = <<>> THEN FALSE
        ELSE IF s = <<>> THEN TRUE
        ELSE IF s[1] = t[1] THEN TextLess(Tail(s), Tail(t))
        ELSE rank(s[1]) < rank(t[1])

\* The offsets the periods are said to have.
SaidOffset ==
    [p \in {"day", "week", "month", "quarter", "year"} |->
        CASE p = "day" -> 1 [] p = "week" -> 7 [] p = "month" -> 30
          [] p = "quarter" -> 90 [] p = "year" -> 365]

\* C11: for each of the five period names get_date_range returns the pair
\* (start, end) of dates where end is the current date and start is exactly
\* 1, 7, 30, 90, 365 days earlier for day, week, month, quarter, year; start
\* is before end, as dates and as the strings returned.
C11_IntervalEndsTodayAtFixedOffset ==
    (pc = "dates_done" /\ period_arg \in DOMAIN SaidOffset) =>
        /\ ret.kind = "returned"
        /\ Len(ret.value) = 2
        /\ IsDateText(ret.value[1]) /\ IsDateText(ret.value[2])
        /\ DayOfText(ret.value[2]) = now_day
        /\ DayOfText(ret.value[1]) = now_day - SaidOffset[period_arg]
        /\ DayOfText(ret.value[1]) < DayOfText(ret.value[2])
        /\ TextLess(ret.value[1], ret.value[2])

\* A year's interval that spans a leap day has been derived: the start is
\* not the same day of the year as the end.
C11_Witness ==
    /\ pc = "dates_done" /\ period_arg = "year" /\ ret.kind = "returned"
    /\ SubSeq(ret.value[1], 6, 10) # SubSeq(ret.value[2], 6, 10)

\* C12: called with a name other than day, week, month, quarter, year,
\* get_date_range raises ValueError and returns no interval.
C12_UnknownPeriodRaisesValueError ==
    (pc = "dates_done" /\ period_arg \notin {"day", "week", "month", "quarter", "year"}) =>
        ret = Raised("ValueError")

\* A call with the unknown period name "Day" has ended.
C12_Witness ==
    pc = "dates_done" /\ period_arg = "Day" /\ ret.kind = "raised"

\* ---------------------------------------- claims on generate_report_content

\* The line of the report that holds the clock reading.
GeneratedOnLine == 4

\* C13 as stated: any two calls of generate_report_content with identical
\* cost collections, bucket list and region return identical text, whatever
\* the clock shows at each call.
C13_RenderingIgnoresClock ==
    \A i, j \in 1..Len(renders) :
        (renders[i].all_costs = renders[j].all_costs
         /\ renders[i].buckets = renders[j].buckets) =>
            renders[i].text = renders[j].text

\* C13 amended: two calls with identical arguments return texts that are
\* equal in every line but the "Generated on:" line, and equal in that line
\* too exactly when the clock shows the same second at both calls.
C13_RenderingDependsOnClockOnly ==
    \A i, j \in 1..Len(renders) :
        (renders[i].all_costs = renders[j].all_costs
         /\ renders[i].buckets = renders[j].buckets) =>
            /\ Len(renders[i].text) = Len(renders[j].text)
            /\ \A n \in 1..Len(renders[i].text) :
                   n # GeneratedOnLine => renders[i].text[n] = renders[j].text[n]
            /\ (renders[i].now = renders[j].now) <=> (renders[i].text = renders[j].text)

\* Two calls at the same second have returned a report that has a breakdown.
C13_Witness ==
    /\ Len(renders) = 2
    /\ renders[1].now = renders[2].now
    /\ renders[1].all_costs = renders[2].all_costs
    /\ \E n \in 1..Len(renders[2].text) : IsEntryLine(renders[2].text[n])

\* C14: generate_report_content leaves all_costs (every bucket_breakdown
\* included) and buckets as they were handed to it, and produces nothing but
\* the text it returns: no file, no request, no printed message.
C14_RenderingLeavesInputs ==
    entry = "generate_report_content" =>
        /\ \A i \in 1..Len(renders) :
               renders[i].all_costs = all_costs /\ renders[i].buckets = buckets
        /\ written = NoFile /\ calls = <<>> /\ requests = <<>> /\ output = <<>>
        /\ filename = <<>> /\ report = <<>> /\ ret = NotYet

\* A call has returned for two buckets and a cost collection with a breakdown.
C14_Witness ==
    /\ Len(renders) >= 1
    /\ Len(buckets) = 2
    /\ \E n \in 1..Len(renders[1].text) : IsEntryLine(renders[1].text[n])

\* --------------------------------------------- claims on list_bucket_objects

\* All objects of the bucket, in listing order across the pages.
RECURSIVE Listed(_)
Listed(pages_) ==
    IF pages_ = <<>> THEN <<>>
    ELSE [i \in 1..Len(pages_[1]) |-> <<pages_[1][i].Key, pages_[1][i].Size>>]
         \o Listed(Tail(pages_))

\* C16: when every page is served, list_bucket_objects has yielded on its
\* end all N objects in listing order with fetch_all, and the first
\* min(max_keys, N) of them without fetch_all and with a cap max_keys.
C16_YieldsCapOrAll ==
    (pc = "inv_done" /\ listing = "ok") =>
        LET all == Listed(pages)
            N   == Len(all)
        IN  /\ fetch_all => yielded = all
            /\ (~fetch_all /\ max_keys # <<>>) =>
                   yielded = SubSeq(all, 1, IF max_keys[1] < N THEN max_keys[1] ELSE N)

Printed(message) == \E i \in 1..Len(output) : output[i] = message

\* The answer was access denied.
Denied(answer) == answer \in {"403", "AccessDenied"}

\* The i-th request is the signed existence check, the unsigned one.
IsSignedCheck(i) == requests[i].op = "head_bucket" /\ requests[i].signed

IsPublicCheck(i) == requests[i].op = "list_objects_v2" /\ ~requests[i].signed

IsListing(i) == requests[i].op = "paginate"

\* C17: in auto mode a signed existence check answered with access denied is
\* followed by the unsigned check; when the unsigned check succeeds the
\* bucket is printed as reachable "(public)" and the run is not ended before
\* the objects are listed; when both checks fail no success is printed,
\* nothing is listed and the run ends with exit code 1.
C17_AutoFallsBackToPublicCheck ==
    auth = "auto" =>
        \A i \in 1..Len(requests) :
            /\ (IsSignedCheck(i) /\ Denied(requests[i].answer)) =>
                   i < Len(requests) /\ IsPublicCheck(i + 1)
            /\ (IsPublicCheck(i) /\ requests[i].answer = "ok") =>
                   /\ Printed(<<"Bucket '">> \o bucket[1]
                              \o <<"' reachable without credentials (public)">>)
                   /\ exit_code # Exit(1)
                   /\ pc \in {"ls_list", "done"}
                   /\ pc = "done" => \E j \in (i + 1)..Len(requests) : IsListing(j)
            /\ (IsPublicCheck(i) /\ requests[i].answer # "ok") =>
                   /\ i > 1 /\ IsSignedCheck(i - 1) /\ requests[i - 1].answer # "ok"
                   /\ pc = "done" /\ exit_code = Exit(1)
                   /\ ~\E j \in 1..Len(requests) : IsListing(j)
                   /\ ~\E j \in 1..Len(output) :
                         /\ Len(output[j]) = Len(bucket[1]) + 2
                         /\ output[j][Len(output[j])]
                                \in {"' reachable without credentials (public)",
                                     "' exists and is accessible (signed)"}

\* An auto run has ended with 0 after the signed check was denied and the
\* unsigned check succeeded.
C17_Witness ==
    /\ auth = "auto" /\ pc = "done" /\ exit_code = Exit(0)
    /\ \E i \in 1..Len(requests) :
        /\ IsSignedCheck(i) /\ Denied(requests[i].answer)
        /\ IsPublicCheck(i + 1) /\ requests[i + 1].answer = "ok"

\* C18: in auto mode, for the existence check and for the listing alike, the
\* unsigned request follows the signed one exactly when the signed one was
\* answered with access denied.
C18_UnsignedRetryOnlyOnAccessDenied ==
    auth = "auto" =>
        \A i \in 1..Len(requests) :
            /\ IsSignedCheck(i) =>
                   ((i < Len(requests) /\ IsPublicCheck(i + 1))
                        <=> Denied(requests[i].answer))
            /\ (IsListing(i) /\ requests[i].signed) =>
                   ((i < Len(requests) /\ IsListing(i + 1) /\ ~requests[i + 1].signed)
                        <=> Denied(requests[i].answer))

\* The credential check failed.
CredentialsFailed ==
    Printed(<<"No AWS credentials found!">>) \/ Printed(<<"Error checking credentials">>)

\* resolve_bucket was called and gave no bucket.
NoBucketResolved ==
    Printed(<<"No bucket specified and none selected.">>) \/ Printed(<<"EOFError">>)

\* The existence check was made and failed.
ExistenceCheckFailed ==
    /\ \E i \in 1..Len(requests) : IsSignedCheck(i) \/ IsPublicCheck(i)
    /\ \A i \in 1..Len(requests) :
           (IsSignedCheck(i) \/ IsPublicCheck(i)) => requests[i].answer # "ok"

Resolving == pc \in {"ls_exists", "ls_list"} \/ NoBucketResolved \/ bucket # <<>>

Prompted == Printed(<<"Enter bucket">>)

BucketsListed == \E i \in 1..Len(requests) : requests[i].op = "list_buckets"

\* C20: a command-line bucket (not empty) is the bucket resolved; without
\* one, an environment bucket (not empty) is; buckets are listed and the
\* user is prompted only without both; with the non-interactive flag there
\* is no prompt in any mode, and without both names no bucket is resolved
\* and the run ends with 1.
C20_ResolvePrecedence ==
    /\ non_interactive => ~Prompted
    /\ (Prompted \/ BucketsListed) => ~Given(cli_bucket) /\ ~Given(env_bucket)
    /\ Resolving =>
           /\ Given(cli_bucket) => bucket = cli_bucket
           /\ (~Given(cli_bucket) /\ Given(env_bucket)) => bucket = env_bucket
           /\ (non_interactive /\ ~Given(cli_bucket) /\ ~Given(env_bucket)) =>
                  bucket = <<>> /\ pc = "done" /\ exit_code = Exit(1)

\* Both names were given and the command-line one was resolved.
C20_Witness ==
    /\ Given(cli_bucket) /\ Given(env_bucket) /\ cli_bucket # env_bucket
    /\ bucket = cli_bucket /\ pc = "ls_exists"

\* ---------------------------------------------- claims on analyze_all_buckets

\* The bucket names whose objects were inventoried, in the order of the
\* inventory.
Inventoried == [i \in 1..Len(analysis_results.buckets) |-> analysis_results.buckets[i][1]]

\* The lines under BUCKETS IN SCOPE of a report that lists these names.
BucketLines(names) ==
    [i \in 1..Len(names) |-> RightJustify(<<ToString(i)>>, 2) \o <<". ">> \o names[i]]

\* The report lists exactly these names under BUCKETS IN SCOPE.
ReportLists(names) ==
    /\ Len(report) >= 10 + Len(names)
    /\ SubSeq(report, 10, 9 + Len(names)) = BucketLines(names)
    /\ report[10 + Len(names)] = <<>>

\* The billing queries of the run were attributed over these names.
AttributedOver(names) ==
    \A i \in 1..Len(all_costs) :
        \E c \in 1..Len(calls) :
            /\ calls[c].period = all_costs[i][1]
            /\ LET last == CHOOSE d \in c..Len(calls) :
                               /\ calls[d].period = calls[c].period
                               /\ \A e \in (d + 1)..Len(calls) :
                                      calls[e].period # calls[c].period
                   answer == IF calls[c].outcome = ApiError \/ calls[last].outcome = ApiError
                             THEN NoCostData
                             ELSE <<(<<"summary", calls[c].outcome>>),
                                    (<<"detailed", calls[last].outcome>>)>>
               IN  /\ calls[c].query = "coarse"
                   /\ all_costs[i][2] = format_cost_data(answer, names)

\* Each of the two bucket lists of a run is read-only once built: the
\* inventory goes over the list of line 53 in its order, and the attribution
\* and the report go over the list Cost_Estimate built at line 315.
EachListReadOnly ==
    entry = "analyze_all_buckets" =>
        /\ (pc \notin {"an_credentials", "an_makedirs", "an_buckets", "an_bucket"}
                /\ analysis_results.total_buckets > 0)
              => Inventoried = analysis_buckets
        /\ report # <<>> => (ReportLists(buckets) /\ AttributedOver(buckets))

\* C21: in a run of the integrated analyzer that wrote a cost report, the
\* bucket names whose objects were inventoried are, in the same order, the
\* bucket names the costs were attributed over and the report lists.
C21_OneBucketSetPerRun ==
    (entry = "analyze_all_buckets" /\ report # <<>>) =>
        /\ buckets = Inventoried
        /\ ReportLists(Inventoried)
        /\ AttributedOver(Inventoried)

====
